---------------------------- MODULE Spec2Model ----------------------------
(***************************************************************************)
(* Kaleidux daemon: the per-output rendering and transition engine         *)
(* (kaleidux-daemon/src/renderer.rs) and the loop that drives it           *)
(* (kaleidux-daemon/src/main.rs).                                          *)
(*                                                                         *)
(* Conventions of the model                                                *)
(*  - std::time::Instant and Duration are integers, in milliseconds.       *)
(*  - Option<Instant> is an integer, NoInstant standing for None.          *)
(*  - f32 progress is a fixed-point integer: ProgressOne stands for 1.0    *)
(*    and (elapsed / duration).min(1.0) is computed exactly (floor).       *)
(*  - a wgpu::Texture is a record [id, size, data]; id 0 is None.  A       *)
(*    texture view and the entries of a bind group are the ids of the      *)
(*    textures they refer to.  device.create_texture returns the least id  *)
(*    that nothing alive refers to.                                        *)
(*  - an aspect ratio width / height is kept as the pair <<width,height>>. *)
(*  - TransitionStats keeps its start_time and batch_id; its frame_count   *)
(*    and target_duration, and video_first_frame_time, only feed log       *)
(*    lines and metrics and are left out; so is                            *)
(*    transition_rendered_this_frame, which render resets on entry and     *)
(*    reads only in a log line.                                            *)
(*  - the composition texture has one id of its own (CompositionId):       *)
(*    every call that replaces it drops the old one and both cached bind   *)
(*    groups before it returns, so no reference to the old one survives.   *)
(*  - a Transition is its name() and a compiled wgpu::RenderPipeline is    *)
(*    the name of the shader it was built from.  get_builtin_shader is a   *)
(*    function of the transition: its outcome for a name is drawn on the   *)
(*    first attempt and kept in ctx.shaders.  Only SpecPipeline follows    *)
(*    the program cache; in the other specifications each render tick      *)
(*    draws whether get_transition_pipeline returns a program.             *)
(***************************************************************************)
EXTENDS Integers, Sequences, FiniteSets, TLC

(***************************************************************************)
(* Bounds of the model.                                                    *)
(***************************************************************************)
\* the clock advances in steps of TickMs, at most MaxTicks times
TickMs == 100
MaxTicks == 2
\* session ids carried by video frames range over 0..MaxSession
MaxSession == 2
\* texture ids
MaxTex == 4

(***************************************************************************)
(* Program constants.                                                      *)
(***************************************************************************)
\* transition_progress: 1.0
ProgressOne == 1000
\* now.checked_sub(Duration::from_millis(100))
ReanchorMs == 100
\* age > self.transition_duration * 0.8, as a fraction StaleNum / StaleDen
StaleNum == 8
StaleDen == 10
\* (config.transition_time as f32 / 1000.0).max(0.001)
MinDurationMs == 1
\* transition_duration: 1.0 in Renderer::new
DefaultDurationMs == 1000
\* r.elapsed().as_millis() > 500 in request_frame_callback
CallbackFailsafeMs == 500
\* entries.len() < 3 in return_texture_to_pool
PoolBucketCap == 3
\* as_secs() < 5 in get_texture_from_pool
PoolGetTtlSecs == 5
\* as_secs() < 10 in cleanup_texture_pool
PoolCleanupTtlSecs == 10
\* the process starts with the monotonic clock at StartTime
StartTime == 1000

NoInstant == 0 - 1
NoSize == <<0, 0>>
NoTex == [id |-> 0, size |-> NoSize, data |-> "none"]
NoBatch == 0

Sizes == {<<1, 1>>, <<2, 1>>}
Data == {"F"}
ContentTypes == {"Image", "Video"}
\* OutputConfig.transition_time values, in ms
TransitionTimes == {0, 200}
BatchIds == {1}
TexIds == 1..MaxTex
CompositionId == 101
Times == {StartTime + k * TickMs : k \in 0..MaxTicks}

is_some(t) == t.id # 0
Min(a, b) == IF a <= b THEN a ELSE b
Max(a, b) == IF a >= b THEN a ELSE b

VARIABLES
    r,          \* the Renderer of one output
    pool,       \* WgpuContext.texture_pool: size -> sequence of TexturePoolEntry
    now,        \* the monotonic clock
    last,       \* the operation performed by the last step, with its inputs and outcome
    loop,       \* the daemon's event loop: session counter, channels, players
    ctx,        \* WgpuContext.transition_pipelines, the shader compiler's
                \* outcomes and the compile failures reported so far
    hist        \* history kept for the reference models the caches are
                \* compared with; no operation of the program reads it

vars == <<r, pool, now, last, loop, ctx, hist>>


(***************************************************************************)
(* Renderer::new: the state of a renderer after construction.              *)
(***************************************************************************)
NoTransitionBindGroup == [prev |-> 0, cur |-> 0]
NoBlitBindGroup == [tex |-> 0]
NoStats == [present |-> FALSE, start_time |-> NoInstant, batch_id |-> NoBatch]

RendererNew ==
    [ config                         |-> <<1, 1>>,
      configured                     |-> FALSE,
      needs_redraw                   |-> TRUE,
      frame_callback_pending         |-> FALSE,
      last_frame_request             |-> NoInstant,
      composition_texture            |-> NoTex,
      composition_texture_view       |-> 0,
      current_texture                |-> NoTex,
      current_aspect                 |-> <<1, 1>>,
      current_texture_size           |-> NoSize,
      current_texture_view           |-> 0,
      prev_texture                   |-> NoTex,
      prev_aspect                    |-> <<1, 1>>,
      prev_texture_view              |-> 0,
      transition_progress            |-> ProgressOne,
      transition_start_time          |-> NoInstant,
      transition_active              |-> FALSE,
      transition_just_completed      |-> FALSE,
      active_transition              |-> "fade",
      transition_duration            |-> DefaultDurationMs,
      transition_stats               |-> NoStats,
      transition_bind_group          |-> NoTransitionBindGroup,
      blit_bind_group                |-> NoBlitBindGroup,
      blit_source_is_composition     |-> FALSE,
      blit_source_is_prev            |-> FALSE,
      valid_content_type             |-> "Image",
      active_video_session_id        |-> 0,
      active_batch_id                |-> NoBatch,
      batch_start_time               |-> NoInstant ]

(***************************************************************************)
(* Texture ids in use: everything a renderer or the pool still refers to.  *)
(***************************************************************************)
PoolTexIds(p) == UNION {{p[k][i].texture.id : i \in 1..Len(p[k])} : k \in DOMAIN p}
RendererTexIds(self) ==
    { self.current_texture.id, self.current_texture_view,
      self.prev_texture.id, self.prev_texture_view,
      self.transition_bind_group.prev, self.transition_bind_group.cur,
      self.blit_bind_group.tex } \ {0}

\* device.create_texture: a texture distinct from every live one
CreateTextureId(used) ==
    IF TexIds \ used = {} THEN 0
    ELSE CHOOSE n \in TexIds \ used : \A m \in TexIds \ used : n <= m
(***************************************************************************)
(* WgpuContext: the texture pool.  A pool is a function from the sizes     *)
(* that have a bucket to the bucket's entries, oldest first.               *)
(***************************************************************************)
age_secs(t, e) == (t - e.last_used) \div 1000

\* variant: the texture handed out stays in its bucket
get_texture_from_pool_peeking(p, size, t, used) ==
    LET fresh == IF size \in DOMAIN p
                 THEN SelectSeq(p[size], LAMBDA e : age_secs(t, e) < PoolGetTtlSecs)
                 ELSE <<>>
        p1    == IF size \in DOMAIN p THEN [p EXCEPT ![size] = fresh] ELSE p
    IN  IF Len(fresh) > 0
        THEN [ pool    |-> p1,
               texture |-> fresh[Len(fresh)].texture,
               hit     |-> TRUE ]
        ELSE [ pool    |-> p1,
               texture |-> [id |-> CreateTextureId(used), size |-> size, data |-> "none"],
               hit     |-> FALSE ]

\* get_texture_from_pool(width, height): [pool, texture, hit]
get_texture_from_pool(p, size, t, used) ==
    LET fresh == IF size \in DOMAIN p
                 THEN SelectSeq(p[size], LAMBDA e : age_secs(t, e) < PoolGetTtlSecs)
                 ELSE <<>>
        p1    == IF size \in DOMAIN p THEN [p EXCEPT ![size] = fresh] ELSE p
    IN  IF Len(fresh) > 0
        THEN [ pool    |-> [p1 EXCEPT ![size] = SubSeq(fresh, 1, Len(fresh) - 1)],
               texture |-> fresh[Len(fresh)].texture,
               hit     |-> TRUE ]
        ELSE [ pool    |-> p1,
               texture |-> [id |-> CreateTextureId(used), size |-> size, data |-> "none"],
               hit     |-> FALSE ]

\* variant: the released texture goes to the front of its bucket
return_texture_to_pool_front(p, texture, size, t) ==
    LET entries == IF size \in DOMAIN p THEN p[size] ELSE <<>>
        pushed  == IF Len(entries) < PoolBucketCap
                   THEN <<[texture |-> texture, last_used |-> t]>> \o entries
                   ELSE entries
    IN  [k \in DOMAIN p \cup {size} |-> IF k = size THEN pushed ELSE p[k]]

\* variant: a bucket takes every released texture
return_texture_to_pool_uncapped(p, texture, size, t) ==
    LET entries == IF size \in DOMAIN p THEN p[size] ELSE <<>>
    IN  [k \in DOMAIN p \cup {size} |->
            IF k = size
            THEN Append(entries, [texture |-> texture, last_used |-> t])
            ELSE p[k]]

\* return_texture_to_pool(texture, width, height)
return_texture_to_pool(p, texture, size, t) ==
    LET entries == IF size \in DOMAIN p THEN p[size] ELSE <<>>
        pushed  == IF Len(entries) < PoolBucketCap
                   THEN Append(entries, [texture |-> texture, last_used |-> t])
                   ELSE entries
    IN  [k \in DOMAIN p \cup {size} |-> IF k = size THEN pushed ELSE p[k]]

\* cleanup_texture_pool()
cleanup_texture_pool(p, t) ==
    LET kept(k) == SelectSeq(p[k], LAMBDA e : age_secs(t, e) < PoolCleanupTtlSecs)
    IN  [k \in {k \in DOMAIN p : Len(kept(k)) > 0} |-> kept(k)]

(***************************************************************************)
(* Renderer: the operations that take no time-dependent input.             *)
(***************************************************************************)
\* set_content_type(content_type)
set_content_type(self, content_type) ==
    [self EXCEPT !.valid_content_type = content_type]

\* apply_config(config): config.transition is a transition name,
\* config.transition_time is in ms
apply_config(self, transition, transition_time) ==
    [self EXCEPT !.active_transition = transition,
                 !.transition_duration = Max(transition_time, MinDurationMs),
                 !.needs_redraw = TRUE]

\* variant: prev is given a copy and current is left in place
move_current_to_prev_cloning(self) ==
    IF is_some(self.current_texture)
    THEN [self EXCEPT !.prev_texture_view = self.current_texture_view,
                      !.prev_texture = self.current_texture,
                      !.prev_aspect = self.current_aspect]
    ELSE self

\* variant: prev is overwritten even when there is no current texture
move_current_to_prev_always(self) ==
    [self EXCEPT !.prev_texture_view = self.current_texture_view,
                 !.current_texture_view = 0,
                 !.prev_texture = self.current_texture,
                 !.current_texture = NoTex,
                 !.prev_aspect = self.current_aspect]

\* "if let Some(curr) = self.current_texture.take()" in switch_content
move_current_to_prev(self) ==
    IF is_some(self.current_texture)
    THEN [self EXCEPT !.prev_texture_view = self.current_texture_view,
                      !.current_texture_view = 0,
                      !.prev_texture = self.current_texture,
                      !.current_texture = NoTex,
                      !.prev_aspect = self.current_aspect]
    ELSE self

\* variant: a running transition stays flagged active over a switch
switch_content_keeps_active(self) ==
    LET moved == move_current_to_prev(self)
    IN  [moved EXCEPT !.transition_progress = 0,
                      !.transition_start_time = NoInstant,
                      !.transition_just_completed = FALSE,
                      !.transition_bind_group = NoTransitionBindGroup,
                      !.blit_bind_group = NoBlitBindGroup,
                      !.batch_start_time = NoInstant,
                      !.needs_redraw = TRUE]

\* switch_content()
switch_content(self) ==
    LET moved == move_current_to_prev(self)
    IN  [moved EXCEPT !.transition_progress = 0,
                      !.transition_start_time = NoInstant,
                      !.transition_active = FALSE,
                      !.transition_just_completed = FALSE,
                      !.transition_bind_group = NoTransitionBindGroup,
                      !.blit_bind_group = NoBlitBindGroup,
                      !.batch_start_time = NoInstant,
                      !.needs_redraw = TRUE]

\* variant: only a running transition is aborted
abort_transition_when_active(self) ==
    IF self.transition_active
    THEN [self EXCEPT !.transition_active = FALSE,
                      !.transition_just_completed = FALSE,
                      !.transition_progress = ProgressOne,
                      !.transition_start_time = NoInstant,
                      !.needs_redraw = TRUE]
    ELSE self

\* abort_transition()
abort_transition(self) ==
    IF self.transition_active \/ ~is_some(self.current_texture)
    THEN [self EXCEPT !.transition_active = FALSE,
                      !.transition_just_completed = FALSE,
                      !.transition_progress = ProgressOne,
                      !.transition_start_time = NoInstant,
                      !.needs_redraw = TRUE]
    ELSE self

\* clear()
clear(self) ==
    [self EXCEPT !.current_texture = NoTex,
                 !.current_texture_view = 0,
                 !.prev_texture = NoTex,
                 !.prev_texture_view = 0,
                 !.composition_texture = NoTex,
                 !.composition_texture_view = 0,
                 !.current_texture_size = NoSize,
                 !.transition_progress = ProgressOne,
                 !.transition_active = FALSE,
                 !.transition_just_completed = FALSE,
                 !.transition_bind_group = NoTransitionBindGroup,
                 !.blit_bind_group = NoBlitBindGroup,
                 !.needs_redraw = TRUE,
                 !.active_video_session_id = 0,
                 !.configured = FALSE]

\* variant: instant completion is not signalled
arm_or_complete_unsignalled(self) ==
    IF is_some(self.prev_texture)
    THEN [self EXCEPT !.transition_start_time = NoInstant,
                      !.transition_progress = 0,
                      !.transition_active = TRUE]
    ELSE [self EXCEPT !.transition_active = FALSE,
                      !.transition_progress = ProgressOne]

\* variant: the transition is prepared but not flagged active
arm_or_complete_inactive(self) ==
    IF is_some(self.prev_texture)
    THEN [self EXCEPT !.transition_start_time = NoInstant,
                      !.transition_progress = 0]
    ELSE [self EXCEPT !.transition_active = FALSE,
                      !.transition_progress = ProgressOne,
                      !.transition_just_completed = TRUE]

\* the tail shared by upload_image_data and upload_frame (first frame after a
\* switch): a transition is armed when there is a previous texture, and the
\* switch completes at once when there is none
arm_or_complete(self) ==
    IF is_some(self.prev_texture)
    THEN [self EXCEPT !.transition_start_time = NoInstant,
                      !.transition_progress = 0,
                      !.transition_active = TRUE]
    ELSE [self EXCEPT !.transition_active = FALSE,
                      !.transition_progress = ProgressOne,
                      !.transition_just_completed = TRUE]

\* upload_image_data(data, width, height)
upload_image_data(self, p, data, size) ==
    LET texture == [id   |-> CreateTextureId(RendererTexIds(self) \cup PoolTexIds(p)),
                    size |-> size, data |-> data]
        s1 == [self EXCEPT !.current_texture_view = texture.id,
                           !.current_texture = texture,
                           !.current_aspect = size,
                           !.current_texture_size = size,
                           !.needs_redraw = TRUE,
                           !.valid_content_type = "Image",
                           !.transition_bind_group = NoTransitionBindGroup,
                           !.blit_bind_group = NoBlitBindGroup,
                           !.blit_source_is_composition = FALSE,
                           !.blit_source_is_prev = FALSE]
    IN  arm_or_complete(s1)

\* variant: the session id of the frame is not compared
frame_is_stale_by_type(self, frame) ==
    self.valid_content_type # "Video"

\* "Discard stale video frames": the early return of upload_frame
frame_is_stale(self, frame) ==
    \/ self.valid_content_type # "Video"
    \/ frame.session_id # self.active_video_session_id

\* variant: every accepted frame arms the transition again, not only the
\* first one after a switch
upload_frame_rearming(self, p, frame, t) ==
    IF frame_is_stale(self, frame)
    THEN [self |-> self, pool |-> p, dropped |-> TRUE, hit |-> FALSE]
    ELSE
    LET needs_new_texture == self.current_texture_size # frame.size
        curr  == self.current_texture
        reuse == is_some(curr) /\ ~needs_new_texture
        taken == [self EXCEPT !.current_texture = NoTex,
                              !.current_texture_view =
                                  IF is_some(curr) /\ needs_new_texture THEN 0 ELSE @]
        p1    == IF is_some(curr) /\ needs_new_texture /\ self.current_texture_size # NoSize
                 THEN return_texture_to_pool(p, curr, self.current_texture_size, t)
                 ELSE p
        got   == IF reuse
                 THEN [pool |-> p, texture |-> curr, hit |-> FALSE]
                 ELSE get_texture_from_pool(p1, frame.size, t,
                                            RendererTexIds(taken) \cup PoolTexIds(p1))
        texture == [got.texture EXCEPT !.data = frame.data]
        s1 == IF needs_new_texture \/ taken.current_texture_view = 0
              THEN [taken EXCEPT !.current_texture_view = texture.id,
                                 !.transition_bind_group = NoTransitionBindGroup,
                                 !.blit_bind_group = NoBlitBindGroup]
              ELSE taken
        s2 == [s1 EXCEPT !.current_texture = texture,
                         !.current_texture_size = frame.size,
                         !.current_aspect = frame.size,
                         !.needs_redraw = TRUE]
    IN  [ self    |-> arm_or_complete(s2),
          pool    |-> got.pool,
          dropped |-> FALSE,
          hit     |-> got.hit ]

\* upload_frame(frame): [self, pool, dropped, hit]; frame = [session_id, size, data]
upload_frame(self, p, frame, t) ==
    IF frame_is_stale(self, frame)
    THEN [self |-> self, pool |-> p, dropped |-> TRUE, hit |-> FALSE]
    ELSE
    LET is_first_frame_after_switch == ~is_some(self.current_texture)
        needs_new_texture == self.current_texture_size # frame.size
        curr  == self.current_texture
        reuse == is_some(curr) /\ ~needs_new_texture
        \* self.current_texture.take(), and the view dropped on a size mismatch
        taken == [self EXCEPT !.current_texture = NoTex,
                              !.current_texture_view =
                                  IF is_some(curr) /\ needs_new_texture THEN 0 ELSE @]
        p1    == IF is_some(curr) /\ needs_new_texture /\ self.current_texture_size # NoSize
                 THEN return_texture_to_pool(p, curr, self.current_texture_size, t)
                 ELSE p
        got   == IF reuse
                 THEN [pool |-> p, texture |-> curr, hit |-> FALSE]
                 ELSE get_texture_from_pool(p1, frame.size, t,
                                            RendererTexIds(taken) \cup PoolTexIds(p1))
        \* queue.write_texture
        texture == [got.texture EXCEPT !.data = frame.data]
        s1 == IF needs_new_texture \/ taken.current_texture_view = 0
              THEN [taken EXCEPT !.current_texture_view = texture.id,
                                 !.transition_bind_group = NoTransitionBindGroup,
                                 !.blit_bind_group = NoBlitBindGroup]
              ELSE taken
        s2 == [s1 EXCEPT !.current_texture = texture,
                         !.current_texture_size = frame.size,
                         !.current_aspect = frame.size,
                         !.needs_redraw = TRUE]
    IN  [ self    |-> IF is_first_frame_after_switch THEN arm_or_complete(s2) ELSE s2,
          pool    |-> got.pool,
          dropped |-> FALSE,
          hit     |-> got.hit ]

(***************************************************************************)
(* Renderer: surface configuration and the composition buffer.             *)
(***************************************************************************)
\* the composition texture created by resize_checked / ensure_composition_texture
new_composition(self, size) ==
    LET texture == [id |-> CompositionId, size |-> size, data |-> "none"]
    IN  [self EXCEPT !.composition_texture_view = texture.id,
                     !.composition_texture = texture,
                     !.transition_bind_group = NoTransitionBindGroup,
                     !.blit_bind_group = NoBlitBindGroup]

\* variant: the cached bind groups survive the new composition texture
resize_checked_keeps_bind_groups(self, size, formats_empty) ==
    IF size[1] > 0 /\ size[2] > 0
    THEN IF formats_empty
         THEN [self EXCEPT !.configured = FALSE]
         ELSE [self EXCEPT !.config = size,
                           !.composition_texture =
                               [id |-> CompositionId, size |-> size, data |-> "none"],
                           !.composition_texture_view = CompositionId,
                           !.configured = TRUE,
                           !.needs_redraw = TRUE]
    ELSE self

\* resize_checked(width, height); formats_empty: target_caps().formats.is_empty()
resize_checked(self, size, formats_empty) ==
    IF size[1] > 0 /\ size[2] > 0
    THEN IF formats_empty
         THEN [self EXCEPT !.configured = FALSE]
         ELSE [new_composition([self EXCEPT !.config = size], size)
                   EXCEPT !.configured = TRUE,
                          !.needs_redraw = TRUE]
    ELSE self

\* ensure_composition_texture(): an Err leaves the renderer as it is
ensure_composition_texture(self) ==
    LET needs_creation == ~is_some(self.composition_texture)
                          \/ self.composition_texture_view = 0
        size_mismatch  == is_some(self.composition_texture)
                          /\ (self.config[1] = 0 \/ self.config[2] = 0)
    IN  IF needs_creation \/ size_mismatch
        THEN IF self.config[1] = 0 \/ self.config[2] = 0
             THEN self
             ELSE new_composition(self, self.config)
        ELSE self

\* request_frame_callback(layer_surface, qh), at Instant::now() = t
request_frame_callback(self, t) ==
    IF self.frame_callback_pending
       /\ self.last_frame_request # NoInstant
       /\ ~(t - self.last_frame_request > CallbackFailsafeMs)
    THEN self
    ELSE [self EXCEPT !.frame_callback_pending = TRUE,
                      !.last_frame_request = t]
(***************************************************************************)
(* Renderer::render, in the order of the source.                           *)
(***************************************************************************)
saturating_duration_since(t, earlier) == Max(0, t - earlier)

\* variant: the quotient is capped just below 1.0
progress_at_below_one(elapsed, duration) ==
    Min(ProgressOne - 1, (elapsed * ProgressOne) \div duration)

\* (elapsed / self.transition_duration).min(1.0)
progress_at(elapsed, duration) == Min(ProgressOne, (elapsed * ProgressOne) \div duration)

\* now.checked_sub(Duration::from_millis(100)).unwrap_or(now)
reanchor(t) == IF t >= ReanchorMs THEN t - ReanchorMs ELSE t

\* variant: the batch anchor is reused whatever its age
first_frame_anchor_unchecked(self, frame_time) ==
    IF self.batch_start_time # NoInstant
    THEN self.batch_start_time
    ELSE frame_time

\* the start anchor chosen on the first render frame of a transition
first_frame_anchor(self, frame_time) ==
    IF self.batch_start_time # NoInstant
    THEN LET age == saturating_duration_since(frame_time, self.batch_start_time)
         IN  IF age * StaleDen > self.transition_duration * StaleNum
             THEN reanchor(frame_time)
             ELSE self.batch_start_time
    ELSE frame_time

\* "Update transition progress BEFORE checking if we should render transition"
advance_transition(self, frame_time) ==
    IF ~self.transition_active THEN self
    ELSE IF self.transition_start_time # NoInstant
    THEN LET elapsed == saturating_duration_since(frame_time, self.transition_start_time)
             new_progress == progress_at(elapsed, self.transition_duration)
         IN  IF new_progress >= ProgressOne
             THEN [self EXCEPT !.transition_progress = new_progress,
                               !.transition_active = FALSE,
                               !.transition_just_completed = TRUE,
                               !.transition_stats = NoStats]
             ELSE [self EXCEPT !.transition_progress = new_progress]
    ELSE LET start == first_frame_anchor(self, frame_time)
             elapsed == saturating_duration_since(frame_time, start)
         IN  [self EXCEPT !.transition_start_time = start,
                          !.transition_progress = progress_at(elapsed, self.transition_duration),
                          !.transition_stats = [present    |-> TRUE,
                                                start_time |-> start,
                                                batch_id   |-> self.active_batch_id]]

\* update_transition_bind_group()
update_transition_bind_group(self) ==
    IF self.prev_texture_view = 0 \/ self.current_texture_view = 0
    THEN [self EXCEPT !.transition_bind_group = NoTransitionBindGroup]
    ELSE IF self.transition_bind_group # NoTransitionBindGroup
    THEN self
    ELSE [self EXCEPT !.transition_bind_group =
                          [prev |-> self.prev_texture_view, cur |-> self.current_texture_view]]

should_render_transition(self) ==
    /\ self.transition_active
    /\ is_some(self.prev_texture)
    /\ is_some(self.current_texture)
    /\ is_some(self.composition_texture)
    /\ self.composition_texture_view # 0

\* "CLEANUP: Drop prev_texture only when transition is TRULY finished"
cleanup_prev(self) ==
    IF self.transition_progress >= ProgressOne
       /\ is_some(self.current_texture)
       /\ is_some(self.prev_texture)
    THEN [self EXCEPT !.prev_texture = NoTex,
                      !.prev_texture_view = 0,
                      !.transition_bind_group = NoTransitionBindGroup,
                      !.blit_bind_group = NoBlitBindGroup,
                      !.transition_start_time = NoInstant,
                      !.transition_active = FALSE]
    ELSE self

\* the transition pass into the composition buffer; only taken when
\* should_render_transition holds and a pipeline was obtained
render_transition(self) ==
    LET s1 == IF self.transition_bind_group = NoTransitionBindGroup
              THEN update_transition_bind_group(self)
              ELSE self
    IN  cleanup_prev(s1)

\* variant: the current texture is drawn whenever it is present
blit_source_current_first(self) ==
    IF is_some(self.current_texture) THEN "Current"
    ELSE IF is_some(self.prev_texture) THEN "Prev"
    ELSE "None"

\* "Blit source selection logic"
blit_source(self) ==
    IF is_some(self.current_texture)
    THEN IF ~self.transition_active \/ ~is_some(self.prev_texture)
         THEN "Current"
         ELSE IF self.transition_active
                 /\ is_some(self.prev_texture)
                 /\ is_some(self.current_texture)
                 /\ is_some(self.composition_texture)
                 /\ self.composition_texture_view # 0
         THEN "Composition"
         ELSE IF self.transition_active /\ is_some(self.prev_texture)
         THEN "Prev"
         ELSE "Current"
    ELSE IF is_some(self.prev_texture)
    THEN "Prev"
    ELSE "None"

source_view(self, source) ==
    CASE source = "Current"     -> self.current_texture_view
      [] source = "Prev"        -> self.prev_texture_view
      [] source = "Composition" -> self.composition_texture_view

fallback_view(self, source) ==
    CASE source = "Composition" -> IF self.prev_texture_view # 0
                                   THEN self.prev_texture_view
                                   ELSE self.current_texture_view
      [] source = "Prev"        -> self.current_texture_view
      [] source = "Current"     -> 0

\* variant: an existing blit bind group is reused whatever it was made for
update_blit_bind_group_if_missing(self, source) ==
    IF self.blit_bind_group # NoBlitBindGroup THEN self
    ELSE IF source_view(self, source) # 0
    THEN [self EXCEPT !.blit_bind_group = [tex |-> source_view(self, source)],
                      !.blit_source_is_composition = source = "Composition",
                      !.blit_source_is_prev = source = "Prev"]
    ELSE self

\* the cached blit bind group, recreated when missing or bound to another
\* source; the bind group is None afterwards only if no view could be found
update_blit_bind_group(self, source) ==
    LET is_comp == source = "Composition"
        is_prev == source = "Prev"
        needs_recreate == \/ self.blit_bind_group = NoBlitBindGroup
                          \/ self.blit_source_is_composition # is_comp
                          \/ self.blit_source_is_prev # is_prev
    IN  IF ~needs_recreate THEN self
        ELSE IF source_view(self, source) # 0
        THEN [self EXCEPT !.blit_bind_group = [tex |-> source_view(self, source)],
                          !.blit_source_is_composition = is_comp,
                          !.blit_source_is_prev = is_prev]
        ELSE IF fallback_view(self, source) # 0
        THEN [self EXCEPT !.blit_bind_group = [tex |-> fallback_view(self, source)],
                          !.blit_source_is_composition = FALSE,
                          !.blit_source_is_prev = source \in {"Prev", "Composition"}]
        ELSE self

\* whether update_blit_bind_group returns from render ("Can't render anything")
blit_view_missing(self, source) ==
    /\ \/ self.blit_bind_group = NoBlitBindGroup
       \/ self.blit_source_is_composition # (source = "Composition")
       \/ self.blit_source_is_prev # (source = "Prev")
    /\ source_view(self, source) = 0
    /\ fallback_view(self, source) = 0

\* variant: needs_redraw is left as it is once no transition is active
after_present_keeps_redraw(self) ==
    IF self.transition_active
    THEN [self EXCEPT !.needs_redraw = TRUE]
    ELSE [self EXCEPT !.transition_start_time = NoInstant]

\* after queue.submit and output.present()
after_present(self) ==
    LET s1 == IF ~self.transition_active
              THEN [self EXCEPT !.transition_start_time = NoInstant]
              ELSE self
    IN  IF s1.transition_active
        THEN [s1 EXCEPT !.needs_redraw = TRUE]
        ELSE IF s1.valid_content_type # "Video"
        THEN [s1 EXCEPT !.needs_redraw = FALSE]
        ELSE s1
SurfaceResults == {"Ok", "Lost", "Outdated", "Timeout", "Other"}
BackendContexts == {"Wayland", "X11"}

\* variant: a lost or outdated surface stays marked as configured
surface_error_keeps_configured(self, acquire) ==
    IF acquire \in {"Lost", "Outdated"}
    THEN [self EXCEPT !.needs_redraw = TRUE,
                      !.frame_callback_pending = FALSE]
    ELSE IF acquire = "Timeout"
    THEN [self EXCEPT !.needs_redraw = TRUE]
    ELSE self

\* render: the Err arms of match self.surface.get_current_texture(); every
\* arm returns Ok(()).  "Timeout" stands for an error whose text contains
\* "timeout", "Other" for any other error
surface_error(self, acquire) ==
    IF acquire \in {"Lost", "Outdated"}
    THEN [self EXCEPT !.configured = FALSE,
                      !.needs_redraw = TRUE,
                      !.frame_callback_pending = FALSE]
    ELSE IF acquire = "Timeout"
    THEN [self EXCEPT !.needs_redraw = TRUE]
    ELSE self

surface_error_exit(acquire) ==
    IF acquire \in {"Lost", "Outdated"} THEN "surface_lost"
    ELSE IF acquire = "Timeout" THEN "surface_timeout"
    ELSE "surface_error"

\* render, from the blit source selection to the end
render_blit(self, context, t) ==
    LET source == blit_source(self)
    IN  IF source = "None"
        THEN [self |-> self, exit |-> "no_source", source |-> source]
        ELSE IF blit_view_missing(self, source)
        THEN [self |-> self, exit |-> "no_view", source |-> source]
        ELSE
        LET s1 == update_blit_bind_group(self, source)
        IN  IF s1.blit_bind_group = NoBlitBindGroup
            THEN [self |-> s1, exit |-> "no_bind_group", source |-> source]
            ELSE
            LET s2 == IF (~s1.frame_callback_pending \/ s1.transition_progress = 0)
                         /\ context = "Wayland"
                      THEN request_frame_callback(s1, t)
                      ELSE s1
            IN  [self |-> after_present(s2), exit |-> "presented", source |-> source]

\* variant: render never skips a tick
skip_render_never(self) == FALSE

\* "Skip render if no transition and no redraw needed"
skip_render(self) == ~self.transition_active /\ ~self.needs_redraw

\* render(context, frame_time): [self, exit, source].
\*   t              Instant::now() during the call
\*   acquire        the result of surface.get_current_texture()
\*   formats_empty  target_caps().formats.is_empty(), read when unconfigured
\*   pipeline       whether get_transition_pipeline returns a pipeline
render(self, context, frame_time, t, acquire, formats_empty, pipeline) ==
    LET s1 == IF ~self.configured /\ self.config[1] > 0 /\ self.config[2] > 0
              THEN resize_checked(self, self.config, formats_empty)
              ELSE self
    IN  IF ~s1.configured
        THEN [self |-> s1, exit |-> "unconfigured", source |-> "None"]
        ELSE IF skip_render(s1)
        THEN [self |-> s1, exit |-> "idle", source |-> "None"]
        ELSE IF acquire # "Ok"
        THEN [self |-> surface_error(s1, acquire),
              exit |-> surface_error_exit(acquire), source |-> "None"]
        ELSE
        LET s2 == advance_transition(s1, frame_time)
            s3 == IF s2.transition_active THEN ensure_composition_texture(s2) ELSE s2
        IN  IF should_render_transition(s3)
            THEN IF ~pipeline
                 THEN [self |-> s3, exit |-> "no_pipeline", source |-> "None"]
                 ELSE render_blit(render_transition(s3), context, t)
            ELSE render_blit(s3, context, t)
\* recreate_surface(surface)
recreate_surface(self) ==
    [self EXCEPT !.configured = FALSE, !.needs_redraw = TRUE]

(***************************************************************************)
(* PipelineLRU and the transition programs of the shared WgpuContext.      *)
(***************************************************************************)
\* transition names (Transition::name), "fade" being the baseline
Transitions == {"fade", "circle", "cube"}
\* the transitions the outputs are configured with
ConfiguredTransitions == {"fade", "circle"}
\* Option<Arc<RenderPipeline>>: None, or the name of the shader it was built from
NoPipeline == "None"
\* get_builtin_shader: Ok(code) or Err
ShaderResults == {"Ok", "Err"}
\* capacity given to the program cache (MAX_PIPELINE_CACHE_SIZE in the engine)
MaxPipelines == 1
\* compile failures are counted up to MaxErrors per name
MaxErrors == 2

\* PipelineLRU::new(max_size): access_order has the most recently used at the back
PipelineLRU_new(max_size) ==
    [ pipelines    |-> [k \in Transitions |-> NoPipeline],
      access_order |-> <<>>,
      max_size     |-> max_size ]

\* PipelineLRU::len, PipelineLRU::contains_key
PipelineLRU_len(lru) == Cardinality({k \in Transitions : lru.pipelines[k] # NoPipeline})
PipelineLRU_contains_key(lru, key) == lru.pipelines[key] # NoPipeline

\* VecDeque::retain(|k| k != key)
retain_other(order, key) == SelectSeq(order, LAMBDA k : k # key)

\* variant: a read does not count as a use
PipelineLRU_get_untouched(lru, key) ==
    [lru |-> lru, pipeline |-> lru.pipelines[key]]

\* PipelineLRU::get(key): [lru, pipeline]
PipelineLRU_get(lru, key) ==
    IF PipelineLRU_contains_key(lru, key)
    THEN [lru |-> [lru EXCEPT !.access_order =
                                  Append(retain_other(@, key), key)],
          pipeline |-> lru.pipelines[key]]
    ELSE [lru |-> lru, pipeline |-> NoPipeline]

\* insert: while self.pipelines.len() >= self.max_size, pop the front of
\* access_order and remove it; stop when access_order is empty
RECURSIVE evict_lru(_)
evict_lru(lru) ==
    IF PipelineLRU_len(lru) >= lru.max_size /\ lru.access_order # <<>>
    THEN evict_lru([lru EXCEPT !.pipelines[Head(lru.access_order)] = NoPipeline,
                               !.access_order = Tail(@)])
    ELSE lru

\* variant: nothing is evicted to make room
PipelineLRU_insert_unbounded(lru, key, pipeline) ==
    [lru EXCEPT !.pipelines[key] = pipeline,
                !.access_order = Append(retain_other(@, key), key)]

\* PipelineLRU::insert(key, pipeline)
PipelineLRU_insert(lru, key, pipeline) ==
    LET l1 == IF PipelineLRU_contains_key(lru, key)
              THEN [lru EXCEPT !.access_order = retain_other(@, key)]
              ELSE evict_lru(lru)
    IN  [l1 EXCEPT !.pipelines[key] = pipeline,
                   !.access_order = Append(@, key)]

\* the shared context before any transition was looked up; compile_errors
\* counts, per name, the "Failed to compile shader for {name}" reports
CtxNew(max_size) ==
    [ transition_pipelines |-> PipelineLRU_new(max_size),
      shaders              |-> [k \in Transitions |-> "Untried"],
      compile_errors       |-> [k \in Transitions |-> 0] ]

\* ShaderManager::get_builtin_shader(transition): the same outcome on every
\* call for a name; drawn is used on the first call
get_builtin_shader(c, name, drawn) ==
    IF c.shaders[name] = "Untried" THEN drawn ELSE c.shaders[name]

\* variant: a transition whose shader fails is given no program
compile_transition_pipeline_no_fallback(c, name, drawn, drawn_fade) ==
    LET code == get_builtin_shader(c, name, drawn)
        c1   == [c EXCEPT !.shaders[name] = code]
    IN  IF code = "Ok"
        THEN [ctx |-> [c1 EXCEPT !.transition_pipelines =
                                     PipelineLRU_insert(@, name, name)],
              pipeline |-> name]
        ELSE [ctx |-> [c1 EXCEPT !.compile_errors[name] = @ + 1],
              pipeline |-> NoPipeline]

\* compile_transition_pipeline(transition): [ctx, pipeline]
compile_transition_pipeline(c, name, drawn, drawn_fade) ==
    LET code == get_builtin_shader(c, name, drawn)
        c1   == [c EXCEPT !.shaders[name] = code]
    IN  IF code = "Ok"
        THEN [ctx |-> [c1 EXCEPT !.transition_pipelines =
                                     PipelineLRU_insert(@, name, name)],
              pipeline |-> name]
        ELSE LET c2   == [c1 EXCEPT !.compile_errors[name] = @ + 1]
                 fade == get_builtin_shader(c2, "fade", drawn_fade)
                 c3   == [c2 EXCEPT !.shaders["fade"] = fade]
             IN  IF fade = "Ok"
                 THEN [ctx |-> [c3 EXCEPT !.transition_pipelines =
                                              PipelineLRU_insert(@, name, "fade")],
                       pipeline |-> "fade"]
                 ELSE [ctx |-> c3, pipeline |-> NoPipeline]

\* get_transition_pipeline(transition): [ctx, pipeline]
get_transition_pipeline(c, name, drawn, drawn_fade) ==
    LET hit == PipelineLRU_get(c.transition_pipelines, name)
    IN  IF hit.pipeline # NoPipeline
        THEN [ctx |-> [c EXCEPT !.transition_pipelines = hit.lru],
              pipeline |-> hit.pipeline]
        ELSE compile_transition_pipeline(c, name, drawn, drawn_fade)

(***************************************************************************)
(* Spec: one Renderer driven through its public operations and public      *)
(* fields, in any order, with the clock advancing between calls.  Every    *)
(* render call is given the current clock value as frame_time.  The        *)
(* presentation target is always acquired and the surface always reports   *)
(* formats when resized; images and frames have one size.                  *)
(***************************************************************************)
\* decoded images and video frames handed to the renderer
Images == {[data |-> "I", size |-> <<1, 1>>]}
Frames == [session_id : 0..MaxSession, size : {<<1, 1>>}, data : Data]
ResizeInputs == {<<0, 1>>, <<1, 1>>}

\* a VideoPlayer after VideoPlayer::new: is_running false, the pipeline in
\* the Null state, no bus watcher thread (thread_handle None), no call of
\* stop in progress (stop "idle", called by "none")
PlayerNew ==
    [ is_running    |-> FALSE,
      pipeline      |-> "Null",
      thread_handle |-> "None",
      stop          |-> "idle",
      by            |-> "none" ]

\* the event loop before the initial load: next_session_id = 1, nothing in
\* the channels, no video player started, no content switch issued, no frame
\* produced by a decoder
LoopNew ==
    [ next_session_id |-> 1,
      image_rx        |-> {},
      sessions        |-> {},
      switches        |-> 0,
      latest          |-> "None",
      frame_rx        |-> <<>>,
      produced        |-> 0,
      video_players   |-> {},
      creating        |-> {},
      player_rx       |-> {},
      stop_tasks      |-> {},
      stops           |-> {},
      removed         |-> FALSE,
      callbacks       |-> {},
      player          |-> PlayerNew ]

\* device.create_texture is modelled while a texture id is free
CanAllocate == TexIds \ (RendererTexIds(r) \cup PoolTexIds(pool)) # {}

\* last records the operation of a step, the session id of the frame it was
\* given (0 for the other operations) and its outcome
DidWith(op, arg, exit) == last' = [op |-> op, arg |-> arg, exit |-> exit]
Did(op, exit) == DidWith(op, 0, exit)

\* the threads that take textures from the pool and release them
Callers == {"c1", "c2"}

\* the history before any operation: a reference LRU map (the program stored
\* under each key and the time of the key's last use on a clock that counts
\* uses), the textures each caller of the texture pool owns, and the last
\* pool operation: its name, texture id, (width, height), time and outcome,
\* with the name, texture id and time of the pool operation before it
NoPoolOp ==
    [ op |-> "none", id |-> 0, key |-> NoSize, at |-> NoInstant, exit |-> "",
      prev_op |-> "none", prev_id |-> 0, prev_at |-> NoInstant ]

PoolOp(h, op, id, key, at, exit) ==
    [ op |-> op, id |-> id, key |-> key, at |-> at, exit |-> exit,
      prev_op |-> h.pool_op.op, prev_id |-> h.pool_op.id,
      prev_at |-> h.pool_op.at ]

\* a thread that is in none of the pool's functions
Idle == [fn |-> "none", at |-> "idle"]

HistNew ==
    [ clock |-> 0,
      used  |-> [k \in Transitions |-> 0],
      map   |-> [k \in Transitions |-> NoPipeline],
      held  |-> [c \in Callers |-> {}],
      pool_op |-> NoPoolOp,
      pc      |-> [c \in Callers |-> Idle],
      locks   |-> [c \in Callers |-> {}],
      under_lock |-> {},
      cached  |-> {},
      pooled  |-> 0 ]

\* the renderer of an output after Renderer::new and apply_config, before
\* the event loop has handled anything
InitRenderer ==
    /\ \E tt \in TransitionTimes : r = apply_config(RendererNew, "fade", tt)
    /\ pool = <<>>
    /\ now = StartTime
    /\ last = [op |-> "new", arg |-> 0, exit |-> ""]
    /\ loop = LoopNew
    /\ hist = HistNew

Init ==
    /\ InitRenderer
    /\ ctx = CtxNew(MaxPipelines)

Tick ==
    /\ now < StartTime + MaxTicks * TickMs
    /\ now' = now + TickMs
    /\ Did("tick", "")
    /\ UNCHANGED <<r, pool, loop, ctx, hist>>

SwitchContent ==
    /\ r' = switch_content(r)
    /\ Did("switch_content", IF is_some(r.current_texture) THEN "moved" ELSE "kept")
    /\ UNCHANGED <<pool, now, loop, ctx, hist>>

\* the caller's start of a video session: set_content_type(Video) and the
\* write of the public field active_video_session_id
BeginVideo ==
    \E s \in 1..MaxSession :
        /\ r' = [set_content_type(r, "Video") EXCEPT !.active_video_session_id = s]
        /\ Did("begin_video", "")
        /\ UNCHANGED <<pool, now, loop, ctx, hist>>

UploadImageData ==
    \E img \in Images :
        /\ CanAllocate
        /\ r' = upload_image_data(r, pool, img.data, img.size)
        /\ Did("upload_image_data", IF is_some(r.prev_texture) THEN "armed" ELSE "instant")
        /\ UNCHANGED <<pool, now, loop, ctx, hist>>

UploadFrame ==
    \E frame \in Frames :
        LET res == upload_frame(r, pool, frame, now)
        IN  /\ CanAllocate
            /\ r' = res.self
            /\ pool' = res.pool
            /\ DidWith("upload_frame", frame.session_id,
                   IF res.dropped THEN "dropped"
                   ELSE IF is_some(r.current_texture) THEN "next"
                   ELSE IF is_some(r.prev_texture) THEN "armed" ELSE "instant")
            /\ UNCHANGED <<now, loop, ctx, hist>>

AbortTransition ==
    /\ r' = abort_transition(r)
    /\ Did("abort_transition",
           IF r.transition_active THEN "running"
           ELSE IF ~is_some(r.current_texture) THEN "starting" ELSE "idle")
    /\ UNCHANGED <<pool, now, loop, ctx, hist>>

Clear ==
    /\ r' = clear(r)
    /\ Did("clear", "")
    /\ UNCHANGED <<pool, now, loop, ctx, hist>>

ResizeChecked ==
    \E size \in ResizeInputs :
        /\ r' = resize_checked(r, size, FALSE)
        /\ Did("resize_checked", "")
        /\ UNCHANGED <<pool, now, loop, ctx, hist>>

Render ==
    \E formats_empty \in BOOLEAN, pipeline \in BOOLEAN :
        LET res == render(r, "X11", now, now, "Ok", formats_empty, pipeline)
        IN  /\ r' = res.self
            /\ Did("render", res.exit)
            /\ UNCHANGED <<pool, now, loop, ctx, hist>>

Next ==
    \/ Tick
    \/ SwitchContent
    \/ BeginVideo
    \/ UploadImageData
    \/ UploadFrame
    \/ AbortTransition
    \/ Clear
    \/ ResizeChecked
    \/ Render

Spec == Init /\ [][Next]_vars

(***************************************************************************)
(* SpecAnchor: the renderer of one output of a batch.  The caller writes   *)
(* the batch fields (active_batch_id, batch_start_time) at any time; the   *)
(* content is images only.                                                 *)
(***************************************************************************)
\* the caller's writes of the public fields active_batch_id and batch_start_time
SetBatch ==
    \E b \in BatchIds, t \in {NoInstant, now} :
        /\ r' = [r EXCEPT !.active_batch_id = b, !.batch_start_time = t]
        /\ Did("set_batch", "")
        /\ UNCHANGED <<pool, now, loop, ctx, hist>>

NextAnchor ==
    \/ Tick
    \/ SetBatch
    \/ SwitchContent
    \/ UploadImageData
    \/ ResizeChecked
    \/ Render

SpecAnchor == Init /\ [][NextAnchor]_vars

(***************************************************************************)
(* Properties of the transition state machine, checked under Spec.         *)
(***************************************************************************)
\* a render call of this step went through to presentation
RenderPresented == last'.op = "render" /\ last'.exit = "presented"

\* a transition that has been started and anchored by a first render tick
TransitionRunning ==
    /\ r.transition_active
    /\ is_some(r.prev_texture)
    /\ is_some(r.current_texture)
    /\ r.transition_start_time # NoInstant

\* C1: a render tick at or after anchor + duration of a running transition
\* ends with progress 1.0, the transition inactive and prev_texture empty.
C1_CompletionTickClearsPrev ==
    [][(TransitionRunning /\ RenderPresented
        /\ now >= r.transition_start_time + r.transition_duration)
       => (/\ r'.transition_progress = ProgressOne
           /\ ~r'.transition_active
           /\ ~is_some(r'.prev_texture))]_vars

\* C2 (invariant I1): prev_texture is non-empty only if transition_active.
C2_PrevOnlyWhileActive == is_some(r.prev_texture) => r.transition_active

\* C3: upload_frame of a frame whose session id differs from
\* active_video_session_id, or given while the expected content is not
\* Video, changes neither the renderer nor the texture pool.
C3_StaleFrameDropped ==
    [][(last'.op = "upload_frame"
        /\ (r.valid_content_type # "Video" \/ last'.arg # r.active_video_session_id))
       => (r' = r /\ pool' = pool)]_vars

\* an older session's frame was dropped while video content is being shown
C3_Witness ==
    /\ last.op = "upload_frame" /\ last.exit = "dropped"
    /\ r.valid_content_type = "Video"
    /\ last.arg > 0 /\ last.arg < r.active_video_session_id
    /\ is_some(r.current_texture)

C7_SwitchContentIdempotentOnPrev ==
    [][(last.op = "switch_content" /\ last'.op = "switch_content")
       => (/\ r'.prev_texture = r.prev_texture
           /\ r'.prev_texture_view = r.prev_texture_view
           /\ r'.prev_aspect = r.prev_aspect)]_vars

\* a switch_content found current already empty and prev still installed
C7_Witness ==
    /\ last.op = "switch_content" /\ last.exit = "kept"
    /\ is_some(r.prev_texture)
    /\ r.prev_texture_view = r.prev_texture.id

\* content applied by this step: an image, or a video frame that is accepted
ContentApplied ==
    \/ last'.op = "upload_image_data"
    \/ /\ last'.op = "upload_frame"
       /\ r.valid_content_type = "Video"
       /\ last'.arg = r.active_video_session_id

\* C8: an image, or the first accepted video frame after a switch, applied
\* while prev_texture is empty completes the switch at once: current holds
\* the content, the transition is inactive, progress is 1.0, prev stays
\* empty and transition_just_completed is set.
C8_InstantCompletion ==
    [][(/\ ContentApplied
        /\ ~is_some(r.prev_texture)
        /\ (last'.op = "upload_frame" => ~is_some(r.current_texture)))
       => (/\ is_some(r'.current_texture)
           /\ r'.current_texture_view = r'.current_texture.id
           /\ r'.current_texture.data = (IF last'.op = "upload_frame" THEN "F" ELSE "I")
           /\ ~r'.transition_active
           /\ r'.transition_progress = ProgressOne
           /\ ~is_some(r'.prev_texture)
           /\ r'.transition_just_completed)]_vars

\* the first video frame after a switch arrived with nothing to fade from
C8_Witness ==
    /\ last.op = "upload_frame" /\ last.exit = "instant"
    /\ is_some(r.current_texture) /\ ~is_some(r.prev_texture)
    /\ r.transition_just_completed

\* C9: with prev holding A after switch_content() and current empty, applying
\* content B leaves prev == A and current == B, the transition active,
\* progress 0 and the start anchor unset; and an unset anchor of an active
\* transition is set by no step other than a render call.
C9_UploadArmsTransition ==
    [][/\ (/\ ContentApplied
           /\ is_some(r.prev_texture)
           /\ ~is_some(r.current_texture))
          => (/\ r'.prev_texture = r.prev_texture
              /\ r'.prev_texture_view = r.prev_texture_view
              /\ is_some(r'.current_texture)
              /\ r'.current_texture.id # r'.prev_texture.id
              /\ r'.current_texture.data = (IF last'.op = "upload_frame" THEN "F" ELSE "I")
              /\ r'.transition_active
              /\ r'.transition_progress = 0
              /\ r'.transition_start_time = NoInstant)
       /\ (r.transition_start_time = NoInstant /\ r'.transition_start_time # NoInstant)
          => last'.op = "render"]_vars

\* an upload that followed switch_content armed the transition
C9_Witness ==
    /\ last.op \in {"upload_image_data", "upload_frame"} /\ last.exit = "armed"
    /\ is_some(r.prev_texture) /\ is_some(r.current_texture)
    /\ r.transition_active /\ r.transition_start_time = NoInstant

(***************************************************************************)
(* Properties of the start anchor, checked under SpecAnchor.               *)
(***************************************************************************)
\* a render call of this step got past the configuration and idle gates
RenderTicked == last'.op = "render" /\ last'.exit \notin {"unconfigured", "idle"}

\* the anchor C10 prescribes for a first render tick at time now
C10_Anchor ==
    IF r.batch_start_time # NoInstant
    THEN IF (now - r.batch_start_time) * 10 <= r.transition_duration * 8
         THEN r.batch_start_time
         ELSE now - 100
    ELSE now

\* C10: the first render tick of an active transition whose anchor is unset
\* assigns the batch anchor T if now - T <= 0.8 * duration, now - 100 ms if
\* the batch anchor is older, and now if there is no batch anchor; the
\* progress it leaves is min(1, (now - anchor) / duration).  The anchor is
\* recorded in the transition's stats and stays in transition_start_time for
\* as long as the transition is active: later render ticks do not change it.
C10_AnchorAssignment ==
    [][/\ (r.transition_active /\ r.transition_start_time = NoInstant /\ RenderTicked)
          => (/\ r'.transition_stats.present
              /\ r'.transition_stats.start_time = C10_Anchor
              /\ r'.transition_progress =
                     Min(ProgressOne,
                         ((now - C10_Anchor) * ProgressOne) \div r.transition_duration)
              /\ r'.transition_start_time =
                     IF r'.transition_active THEN C10_Anchor ELSE NoInstant)
       /\ (/\ r.transition_active /\ r.transition_start_time # NoInstant
           /\ last'.op = "render" /\ r'.transition_active)
          => r'.transition_start_time = r.transition_start_time]_vars

\* a first render tick found the batch anchor too old and re-anchored
C10_Witness ==
    /\ last.op = "render" /\ last.exit = "presented"
    /\ r.transition_active
    /\ r.batch_start_time # NoInstant
    /\ r.transition_start_time = now - ReanchorMs
    /\ r.transition_start_time > r.batch_start_time
    /\ r.transition_progress > 0 /\ r.transition_progress < ProgressOne

(***************************************************************************)
(* SpecMain: the daemon's event loop for one output (main.rs, the Wayland  *)
(* loop).  Each section of the loop body is an action that handles one     *)
(* queued item.  Decode tasks and video players run concurrently with the  *)
(* loop, so decoded images arrive in any order, and the frames of every    *)
(* player that was started may still arrive: a replaced player is only     *)
(* asked to stop, in a background task.  The surface is always acquired    *)
(* and a transition pipeline is always available.                          *)
(***************************************************************************)
\* content switches issued in a run
MaxSwitches == 3

\* r.render(BackendContext::Wayland{..}, loop_start)
loop_render(self, t) == render(self, "Wayland", t, t, "Ok", FALSE, TRUE).self

\* switch_wallpaper_content and create_and_start_video_player, on the
\* renderer: [self, loop]
switch_wallpaper_content(self, lp, content_type, batch_id, batch_trigger_time) ==
    LET s1 == [self EXCEPT !.active_batch_id = batch_id,
                           !.batch_start_time = batch_trigger_time]
        s2 == switch_content(set_content_type(s1, content_type))
        session_id == lp.next_session_id
        \* a playing video's player leaves the map; its stop() is spawned
        lp1 == [lp EXCEPT !.switches = @ + 1, !.latest = content_type,
                          !.video_players = {},
                          !.stop_tasks = @ \cup lp.video_players]
    IN  IF content_type = "Image"
        THEN [self |-> s2, loop |-> lp1]
        ELSE [self |-> [s2 EXCEPT !.active_video_session_id = session_id],
              loop |-> [lp1 EXCEPT !.next_session_id = @ + 1,
                                   !.sessions = @ \cup {session_id},
                                   !.creating = @ \cup {session_id}]]

\* "Initial Load", "Automated Changes" and the Next/Prev commands: one content
\* switch; an image switch spawns a decode task whose result is sent later
SwitchWallpaper ==
    \E content_type \in ContentTypes, decoded \in BOOLEAN :
        LET res == switch_wallpaper_content(r, loop, content_type, 1,
                       IF loop.switches = 0 THEN NoInstant ELSE now)
        IN  /\ loop.switches < MaxSwitches
            /\ content_type = "Video" => decoded
            /\ r' = res.self
            /\ loop' = IF content_type = "Image"
                       THEN [res.loop EXCEPT !.image_rx =
                                 @ \cup {[switch |-> res.loop.switches, decoded |-> decoded]}]
                       ELSE res.loop
            /\ DidWith("switch_wallpaper_content", res.loop.switches, content_type)
            /\ UNCHANGED <<pool, now, ctx, hist>>

\* "Handle Resizes"
HandleResize ==
    LET s1 == resize_checked(r, <<1, 1>>, FALSE)
    IN  /\ r' = IF s1.configured
                THEN request_frame_callback(loop_render(s1, now), now)
                ELSE s1
        /\ Did("resize", "")
        /\ UNCHANGED <<pool, now, loop, ctx, hist>>

\* "Handle Frames": the latest frame of a player's session
HandleFrame ==
    \E session_id \in loop.sessions :
        LET frame == [session_id |-> session_id, size |-> <<1, 1>>, data |-> "F"]
            res == upload_frame(r, pool, frame, now)
            s1  == res.self
        IN  /\ CanAllocate
            /\ r' = IF s1.valid_content_type = "Video"
                       /\ (~s1.frame_callback_pending \/ s1.transition_progress = 0)
                    THEN request_frame_callback(loop_render(s1, now), now)
                    ELSE s1
            /\ pool' = res.pool
            /\ DidWith("handle_frame", session_id,
                       IF res.dropped THEN "dropped" ELSE "applied")
            /\ UNCHANGED <<now, loop, ctx, hist>>

\* "Handle Images": one LoadedImage taken from image_rx
HandleImage ==
    \E msg \in loop.image_rx :
        LET s1 == upload_image_data(r, pool, "I", <<1, 1>>)
        IN  /\ CanAllocate
            /\ r' = IF msg.decoded
                    THEN IF s1.configured THEN loop_render(s1, now) ELSE s1
                    ELSE abort_transition(r)
            /\ loop' = [loop EXCEPT !.image_rx = @ \ {msg}]
            /\ DidWith("handle_image", msg.switch,
                       IF msg.decoded THEN "uploaded" ELSE "aborted")
            /\ UNCHANGED <<pool, now, ctx, hist>>

\* "Rendering": the compositor's frame callback for the output
FrameCallbackReady ==
    /\ r.frame_callback_pending
    /\ r' = loop_render([r EXCEPT !.frame_callback_pending = FALSE,
                                  !.last_frame_request = NoInstant], now)
    /\ Did("frame_callback", "")
    /\ UNCHANGED <<pool, now, loop, ctx, hist>>

\* "Request missing frames and check for transition completion"
RequestMissingFrames ==
    LET s1 == IF (r.needs_redraw \/ r.transition_active \/ r.valid_content_type = "Video")
                 /\ ~r.frame_callback_pending
              THEN request_frame_callback(r, now)
              ELSE r
    IN  /\ r' = [s1 EXCEPT !.transition_just_completed = FALSE]
        /\ Did("request_missing", "")
        /\ UNCHANGED <<pool, now, loop, ctx, hist>>

NextMain ==
    \/ Tick
    \/ SwitchWallpaper
    \/ HandleResize
    \/ HandleFrame
    \/ HandleImage
    \/ FrameCallbackReady
    \/ RequestMissingFrames

SpecMain == Init /\ [][NextMain]_vars

(***************************************************************************)
(* Properties of session ids and stale deliveries, checked under SpecMain. *)
(***************************************************************************)
\* C4: a decoded image of a content switch that is no longer the latest one
\* is dropped when it is delivered: it does not become current, it does not
\* restart the transition and it does not change the expected content kind.
C4_StaleImageDropped ==
    [][(last'.op = "handle_image" /\ last'.arg < loop.switches)
       => (/\ r'.current_texture = r.current_texture
           /\ r'.valid_content_type = r.valid_content_type
           /\ r'.transition_progress >= r.transition_progress)]_vars

\* C5: every content switch, for an image as well as for a video, takes a
\* fresh session id from next_session_id, greater than the ids taken before,
\* and that id is the renderer's accepted session id when the switch returns.
C5_EverySwitchTakesSessionId ==
    [][last'.op = "switch_wallpaper_content"
       => (/\ loop'.next_session_id = loop.next_session_id + 1
           /\ r'.active_video_session_id = loop.next_session_id
           /\ r'.active_video_session_id > r.active_video_session_id)]_vars

C12_BatchAnchorSurvivesSwitch ==
    [][(/\ last'.op = "handle_image" /\ last'.exit = "uploaded"
        /\ last'.arg = loop.switches
        /\ loop.switches > 1)
       => (r.batch_start_time # NoInstant /\ r.batch_start_time <= now)]_vars

\* C13: while a transition is active, no step other than a content switch
\* lowers transition_progress, and the progress stays within [0, 1].
C13_ProgressMonotone ==
    [][(r.transition_active /\ last'.op # "switch_wallpaper_content")
       => (/\ r'.transition_progress >= r.transition_progress
           /\ r'.transition_progress >= 0
           /\ r'.transition_progress <= ProgressOne)]_vars

(***************************************************************************)
(* SpecCallback: the event loop of SpecMain with a compositor that may     *)
(* stay silent: the clock can pass the frame-callback failsafe window in   *)
(* one step, with no event handled in between.                             *)
(***************************************************************************)
\* more than 500 ms pass with no event
LongWait ==
    /\ now <= StartTime + MaxTicks * TickMs
    /\ now' = now + CallbackFailsafeMs + TickMs
    /\ Did("wait", "")
    /\ UNCHANGED <<r, pool, loop, ctx, hist>>

NextCallback ==
    \/ Tick
    \/ LongWait
    \/ SwitchWallpaper
    \/ HandleResize
    \/ HandleFrame
    \/ HandleImage
    \/ FrameCallbackReady
    \/ RequestMissingFrames

SpecCallback == Init /\ [][NextCallback]_vars

\* C16: when a frame callback was requested more than 500 ms ago, is still
\* pending, and the surface still needs drawing (needs_redraw, an active
\* transition, or video content), the loop's "request missing frames" step
\* treats it as lost and issues a new request.
C16_LostCallbackReRequested ==
    [][(/\ last'.op = "request_missing"
        /\ r.frame_callback_pending
        /\ r.last_frame_request # NoInstant
        /\ now - r.last_frame_request > 500
        /\ (r.needs_redraw \/ r.transition_active \/ r.valid_content_type = "Video"))
       => (r'.frame_callback_pending /\ r'.last_frame_request = now)]_vars

(***************************************************************************)
(* SpecLive: the renderer with render ticks that keep occurring and a      *)
(* clock that keeps running.  Content is switched and delivered, as        *)
(* irregularly as the interleaving allows, during the first MaxTicks ticks *)
(* only; afterwards the clock runs on for as long as a transition is in    *)
(* flight.  The surface is always acquired.                                *)
(***************************************************************************)
Delivering == now < StartTime + MaxTicks * TickMs

ClockRuns ==
    IF Delivering THEN TRUE
    ELSE /\ r.transition_active
         /\ r.transition_start_time # NoInstant
         /\ now < r.transition_start_time + r.transition_duration

TickLive ==
    /\ ClockRuns
    /\ now' = now + TickMs
    /\ Did("tick", "")
    /\ UNCHANGED <<r, pool, loop, ctx, hist>>

SwitchContentLive == Delivering /\ SwitchContent
BeginVideoLive == Delivering /\ BeginVideo
UploadImageDataLive == Delivering /\ UploadImageData
UploadFrameLive == Delivering /\ UploadFrame
ResizeCheckedLive == Delivering /\ ResizeChecked

NextLive ==
    \/ TickLive
    \/ SwitchContentLive
    \/ BeginVideoLive
    \/ UploadImageDataLive
    \/ UploadFrameLive
    \/ ResizeCheckedLive
    \/ Render

\* render has been called since the last step of another kind
RenderCalled == last.op = "render"

\* time keeps passing (WF on the clock) and the loop keeps calling render:
\* render is always enabled, so "again and again a render call is the latest
\* step" is what weak fairness of Render asks for
SpecLive == Init /\ [][NextLive]_vars /\ WF_vars(TickLive) /\ []<>RenderCalled

\* C14: on a configured surface every transition that becomes active
\* eventually becomes inactive, with no further delivery needed; and a
\* render tick at or after anchor + duration is the one that ends it.
C14_TransitionsComplete ==
    /\ (r.configured /\ r.transition_active) ~> ~r.transition_active
    /\ [][(/\ r.transition_active /\ r.transition_start_time # NoInstant
           /\ RenderTicked
           /\ now >= r.transition_start_time + r.transition_duration)
          => ~r'.transition_active]_vars

\* a render tick after the delivery window completed a running transition
C14_Witness ==
    /\ last.op = "render"
    /\ ~Delivering
    /\ ~r.transition_active /\ r.transition_just_completed
    /\ r.transition_progress = ProgressOne
    /\ is_some(r.prev_texture) /\ is_some(r.current_texture)
\* ---------------------------------------------------------------------------
\* C15: abort_transition() called while a transition is active, or while
\* current is still empty after a switch, forces completion: afterwards the
\* transition is inactive, transition_progress is 1.0, the start anchor is
\* unset, needs_redraw is true (and transition_just_completed is false), and
\* nothing else changes; called on an idle surface that has current content
\* it changes nothing at all.
C15_AbortForcesCompletion ==
    [][last'.op = "abort_transition" =>
        IF r.transition_active \/ ~is_some(r.current_texture)
        THEN /\ ~r'.transition_active
             /\ r'.transition_progress = ProgressOne
             /\ r'.transition_start_time = NoInstant
             /\ r'.needs_redraw
             /\ ~r'.transition_just_completed
             /\ r'.current_texture = r.current_texture
             /\ r'.prev_texture = r.prev_texture
             /\ r'.valid_content_type = r.valid_content_type
             /\ r'.active_video_session_id = r.active_video_session_id
             /\ r'.configured = r.configured
        ELSE r' = r]_vars

\* abort_transition() has just acted on a surface that was waiting for the
\* content of a switch: the outgoing texture is held, current is empty
C15_Witness ==
    /\ last.op = "abort_transition"
    /\ last.exit = "starting"
    /\ is_some(r.prev_texture)
    /\ ~is_some(r.current_texture)
    /\ ~r.transition_active
    /\ r.transition_progress = ProgressOne
    /\ r.needs_redraw

\* the other two cases of abort_transition(): a running transition cut short,
\* and the call on an idle surface showing content
C15_WitnessRunning ==
    /\ last.op = "abort_transition"
    /\ last.exit = "running"
    /\ is_some(r.current_texture)
    /\ ~r.transition_active

C15_WitnessIdle ==
    /\ last.op = "abort_transition"
    /\ last.exit = "idle"
    /\ is_some(r.current_texture)
    /\ ~r.needs_redraw
(***************************************************************************)
(* SpecSurface: one Renderer showing images, whose presentation target can *)
(* fail to be acquired on any render tick and whose surface can report no  *)
(* formats when it is configured again.  For a render step last.arg is 1   *)
(* when the surface reported no formats and 0 otherwise.                   *)
(***************************************************************************)
RenderSurface ==
    \E acquire \in SurfaceResults, formats_empty \in BOOLEAN :
        LET res == render(r, "X11", now, now, acquire, formats_empty, TRUE)
        IN  /\ r' = res.self
            /\ DidWith("render", IF formats_empty THEN 1 ELSE 0, res.exit)
            /\ UNCHANGED <<pool, now, loop, ctx, hist>>

NextSurface ==
    \/ Tick
    \/ SwitchContent
    \/ UploadImageData
    \/ ResizeChecked
    \/ RenderSurface

SpecSurface == Init /\ [][NextSurface]_vars

\* the outcomes of a render tick on which get_current_texture() failed with
\* Lost, Outdated or a timeout
SurfaceErrorExits == {"surface_lost", "surface_timeout"}

\* ---------------------------------------------------------------------------
\* C17: when acquiring the presentation target fails, the render tick ends
\* without an error; after Lost or Outdated configured is false and
\* needs_redraw is true, after a timeout needs_redraw is true and the surface
\* is still configured; the tick leaves current, previous, transition_active,
\* transition_progress and the start anchor as they were; and a render tick
\* that follows directly does not skip: it configures the surface again when
\* the surface reports formats and goes on to acquire the target.
C17_SurfaceErrorsRecoverable ==
    [][last'.op = "render" =>
        /\ last'.exit = "surface_lost" =>
              ~r'.configured /\ r'.needs_redraw
        /\ last'.exit = "surface_timeout" =>
              r'.configured /\ r'.needs_redraw
        /\ last'.exit \in SurfaceErrorExits \cup {"surface_error"} =>
              /\ r'.current_texture = r.current_texture
              /\ r'.prev_texture = r.prev_texture
              /\ r'.transition_active = r.transition_active
              /\ r'.transition_progress = r.transition_progress
              /\ r'.transition_start_time = r.transition_start_time
        /\ (last.op = "render" /\ last.exit \in SurfaceErrorExits) =>
              /\ last'.exit # "idle"
              /\ last'.arg = 0 => last'.exit # "unconfigured"
              /\ last'.arg = 0 /\ last'.exit \notin {"surface_lost"}
                    => r'.configured]_vars

\* a render tick in the middle of a transition has just lost the surface
C17_Witness ==
    /\ last.op = "render"
    /\ last.exit = "surface_lost"
    /\ ~r.configured
    /\ r.needs_redraw
    /\ r.transition_active
    /\ r.transition_progress > 0
    /\ r.transition_progress < ProgressOne
    /\ is_some(r.prev_texture)

\* a render tick in the middle of a transition has just timed out
C17_WitnessTimeout ==
    /\ last.op = "render"
    /\ last.exit = "surface_timeout"
    /\ r.configured
    /\ r.transition_active
    /\ r.transition_progress > 0
    /\ r.transition_progress < ProgressOne
(***************************************************************************)
(* SpecPipeline: one Renderer showing images with the transition it was    *)
(* configured with, and the program cache it shares with the renderers of  *)
(* the other outputs, whose lookups are the GetTransitionPipeline steps.   *)
(* For a lookup step last.arg is the transition name and last.exit the     *)
(* program returned.                                                       *)
(***************************************************************************)
InitPipeline ==
    /\ \E transition \in ConfiguredTransitions, tt \in TransitionTimes :
           r = apply_config(RendererNew, transition, tt)
    /\ pool = <<>>
    /\ now = StartTime
    /\ last = [op |-> "new", arg |-> 0, exit |-> ""]
    /\ loop = LoopNew
    /\ ctx = CtxNew(MaxPipelines)
    /\ hist = HistNew

\* a lookup by the renderer of another output (its render tick, or
\* precompile_common_shaders)
GetTransitionPipeline ==
    \E name \in ConfiguredTransitions, drawn \in ShaderResults,
       drawn_fade \in ShaderResults :
        LET res == get_transition_pipeline(ctx, name, drawn, drawn_fade)
        IN  /\ ctx.compile_errors[name] < MaxErrors
            /\ ctx' = res.ctx
            /\ DidWith("get_transition_pipeline", name, res.pipeline)
            /\ UNCHANGED <<r, pool, now, loop, hist>>

\* render reaches get_transition_pipeline exactly when it would return for
\* want of a program
render_looks_up(self, t) ==
    render(self, "X11", t, t, "Ok", FALSE, FALSE).exit = "no_pipeline"

RenderPipeline ==
    \E drawn \in ShaderResults, drawn_fade \in ShaderResults :
        LET looks_up == render_looks_up(r, now)
            got == get_transition_pipeline(ctx, r.active_transition, drawn, drawn_fade)
            res == render(r, "X11", now, now, "Ok", FALSE,
                          ~looks_up \/ got.pipeline # NoPipeline)
        IN  /\ looks_up => ctx.compile_errors[r.active_transition] < MaxErrors
            /\ r' = res.self
            /\ ctx' = IF looks_up THEN got.ctx ELSE ctx
            /\ Did("render", res.exit)
            /\ UNCHANGED <<pool, now, loop, hist>>

NextPipeline ==
    \/ Tick
    \/ SwitchContent
    \/ UploadImageData
    \/ GetTransitionPipeline
    \/ RenderPipeline

SpecPipeline == InitPipeline /\ [][NextPipeline]_vars

\* ---------------------------------------------------------------------------
\* C18: get_transition_pipeline(X) returns the cached program on a hit and
\* compiles nothing; on a miss it compiles X and returns X's program; if
\* compiling X fails it returns a program built from fade; if fade fails too
\* it returns no program.  A render tick that gets no program draws nothing
\* and leaves the transition running, and a render tick at or after
\* anchor + duration still ends the transition and presents current.
C18_PipelineFallback ==
    [][/\ last'.op = "get_transition_pipeline" =>
            LET name   == last'.arg
                cached == ctx.transition_pipelines.pipelines[name]
            IN  IF cached # NoPipeline
                THEN /\ last'.exit = cached
                     /\ ctx'.shaders = ctx.shaders
                     /\ ctx'.compile_errors = ctx.compile_errors
                     /\ ctx'.transition_pipelines.pipelines
                            = ctx.transition_pipelines.pipelines
                ELSE /\ ctx'.shaders[name] # "Untried"
                     /\ ctx'.shaders[name] = "Ok" => last'.exit = name
                     /\ ctx'.shaders[name] = "Err" =>
                            /\ ctx'.shaders["fade"] # "Untried"
                            /\ ctx'.shaders["fade"] = "Ok" => last'.exit = "fade"
                            /\ ctx'.shaders["fade"] = "Err" => last'.exit = NoPipeline
       /\ (last'.op = "render" /\ last'.exit = "no_pipeline") =>
            /\ ctx'.shaders[r.active_transition] = "Err"
            /\ ctx'.shaders["fade"] = "Err"
            /\ r'.transition_active
            /\ r'.current_texture = r.current_texture
            /\ r'.prev_texture = r.prev_texture
            /\ r'.blit_bind_group = r.blit_bind_group
            /\ r'.transition_bind_group = r.transition_bind_group
       /\ (/\ last'.op = "render"
           /\ r.transition_active
           /\ r.transition_start_time # NoInstant
           /\ now >= r.transition_start_time + r.transition_duration) =>
            /\ ~r'.transition_active
            /\ r'.transition_progress = ProgressOne
            /\ last'.exit = "presented"
            /\ ~r'.blit_source_is_composition
            /\ ~r'.blit_source_is_prev]_vars

\* neither the configured transition nor fade compiles, and the switch has
\* just ended on a render tick that presented current
C18_Witness ==
    /\ last.op = "render"
    /\ last.exit = "presented"
    /\ ctx.shaders[r.active_transition] = "Err"
    /\ ctx.shaders["fade"] = "Err"
    /\ ctx.compile_errors[r.active_transition] >= 1
    /\ ~r.transition_active
    /\ r.transition_just_completed
    /\ r.transition_progress = ProgressOne
    /\ r.transition_duration > TickMs
    /\ is_some(r.current_texture)

\* a render tick of a running transition has just returned for want of a program
C18_WitnessNoProgram ==
    /\ last.op = "render"
    /\ last.exit = "no_pipeline"
    /\ r.transition_active
    /\ r.transition_start_time # NoInstant

\* a lookup has just returned the fade program for a transition whose own
\* shader does not compile
C18_WitnessFade ==
    /\ last.op = "get_transition_pipeline"
    /\ last.arg # "fade"
    /\ last.exit = "fade"
    /\ ctx.shaders[last.arg] = "Err"

\* ---------------------------------------------------------------------------
\* C19: for every transition name whose compilation fails, the failure is
\* reported once and never again, over any sequence of render ticks and
\* lookups.
C19_CompileFailureRecordedOnce ==
    \A name \in Transitions : ctx.compile_errors[name] <= 1
(***************************************************************************)
(* SpecLRU: a PipelineLRU of any capacity from 1 to MaxCapacity under any  *)
(* sequence of get and insert.  For these steps last.arg is the key and    *)
(* last.exit says what the call found: "hit" or "miss" for get; "replaced" *)
(* (the key was cached), "evicted" (the cache was full) or "added" for     *)
(* insert.                                                                 *)
(***************************************************************************)
MaxCapacity == 2

InitLRU ==
    /\ InitRenderer
    /\ \E max_size \in 1..MaxCapacity : ctx = CtxNew(max_size)

PipelineGet ==
    \E key \in Transitions :
        LET res == PipelineLRU_get(ctx.transition_pipelines, key)
        IN  /\ ctx' = [ctx EXCEPT !.transition_pipelines = res.lru]
            /\ DidWith("get", key,
                       IF res.pipeline # NoPipeline THEN "hit" ELSE "miss")
            /\ UNCHANGED <<r, pool, now, loop, hist>>

PipelineInsert ==
    \E key \in Transitions, pipeline \in Transitions :
        LET lru == ctx.transition_pipelines
        IN  /\ ctx' = [ctx EXCEPT !.transition_pipelines =
                                      PipelineLRU_insert(lru, key, pipeline)]
            /\ DidWith("insert", key,
                       IF PipelineLRU_contains_key(lru, key) THEN "replaced"
                       ELSE IF PipelineLRU_len(lru) >= lru.max_size THEN "evicted"
                       ELSE "added")
            /\ UNCHANGED <<r, pool, now, loop, hist>>

NextLRU == PipelineGet \/ PipelineInsert

SpecLRU == InitLRU /\ [][NextLRU]_vars

\* the keys of the cached programs
CachedKeys(lru) == {k \in Transitions : lru.pipelines[k] # NoPipeline}

\* ---------------------------------------------------------------------------
\* C20: after any sequence of get and insert on a PipelineLRU of capacity
\* N >= 1 the number of cached programs never exceeds N (and access_order
\* lists exactly the cached keys, each once); inserting a key that is
\* already cached evicts nothing and stores the new program; get changes no
\* cached program.
C20_CacheBounded ==
    /\ [](LET lru == ctx.transition_pipelines
          IN  /\ PipelineLRU_len(lru) <= lru.max_size
              /\ Len(lru.access_order) = PipelineLRU_len(lru)
              /\ {lru.access_order[i] : i \in 1..Len(lru.access_order)}
                     = CachedKeys(lru))
    /\ [][(last'.op = "insert" /\ last'.exit = "replaced") =>
            /\ CachedKeys(ctx'.transition_pipelines)
                   = CachedKeys(ctx.transition_pipelines)
            /\ \A k \in Transitions \ {last'.arg} :
                   ctx'.transition_pipelines.pipelines[k]
                       = ctx.transition_pipelines.pipelines[k]]_vars
    /\ [][last'.op = "get" =>
            ctx'.transition_pipelines.pipelines
                = ctx.transition_pipelines.pipelines]_vars

\* an insert into a full cache has just evicted the least recently used key
C20_Witness ==
    /\ last.op = "insert"
    /\ last.exit = "evicted"
    /\ PipelineLRU_len(ctx.transition_pipelines) = ctx.transition_pipelines.max_size
    /\ ctx.transition_pipelines.max_size > 1

\* a cached key has just been inserted again into a full cache
C20_WitnessReplaced ==
    /\ last.op = "insert"
    /\ last.exit = "replaced"
    /\ PipelineLRU_len(ctx.transition_pipelines) = ctx.transition_pipelines.max_size
    /\ ctx.transition_pipelines.max_size > 1
(***************************************************************************)
(* SpecLRURef: the PipelineLRU of SpecLRU run side by side with a          *)
(* reference LRU map kept in hist.  The reference stamps a key with the    *)
(* time of each use (a successful get, or an insert) and, when a new key   *)
(* meets a full map, removes the key with the oldest stamp.                *)
(***************************************************************************)
\* the reference clock counts at most MaxUses uses
MaxUses == 5

RefKeys(h) == {k \in Transitions : h.map[k] # NoPipeline}
RefOldest(h) == CHOOSE k \in RefKeys(h) : \A j \in RefKeys(h) : h.used[k] <= h.used[j]

ref_touch(h, key) == [h EXCEPT !.clock = @ + 1, !.used[key] = h.clock + 1]

ref_get(h, key) == IF key \in RefKeys(h) THEN ref_touch(h, key) ELSE h

ref_insert(h, key, pipeline, capacity) ==
    LET h1 == IF key \notin RefKeys(h) /\ Cardinality(RefKeys(h)) >= capacity
              THEN [h EXCEPT !.map[RefOldest(h)] = NoPipeline]
              ELSE h
    IN  ref_touch([h1 EXCEPT !.map[key] = pipeline], key)

PipelineGetRef ==
    \E key \in Transitions :
        LET res == PipelineLRU_get(ctx.transition_pipelines, key)
        IN  /\ hist.clock < MaxUses
            /\ ctx' = [ctx EXCEPT !.transition_pipelines = res.lru]
            /\ hist' = ref_get(hist, key)
            /\ DidWith("get", key, res.pipeline)
            /\ UNCHANGED <<r, pool, now, loop>>

PipelineInsertRef ==
    \E key \in Transitions, pipeline \in ConfiguredTransitions :
        LET lru == ctx.transition_pipelines
        IN  /\ hist.clock < MaxUses
            /\ ctx' = [ctx EXCEPT !.transition_pipelines =
                                      PipelineLRU_insert(lru, key, pipeline)]
            /\ hist' = ref_insert(hist, key, pipeline, lru.max_size)
            /\ DidWith("insert", key,
                       IF PipelineLRU_contains_key(lru, key) THEN "replaced"
                       ELSE IF PipelineLRU_len(lru) >= lru.max_size THEN "evicted"
                       ELSE "added")
            /\ UNCHANGED <<r, pool, now, loop>>

NextLRURef == PipelineGetRef \/ PipelineInsertRef

SpecLRURef == InitLRU /\ [][NextLRURef]_vars

\* ---------------------------------------------------------------------------
\* C21: eviction is least-recently-used.  For every sequence of get and
\* insert the cache holds exactly the programs of the reference LRU map and
\* access_order lists the cached keys from the oldest last use to the newest;
\* get returns what the reference map holds; an insert of a new key into a
\* full cache removes exactly the cached key whose last use is the oldest;
\* and a key just read by get survives the next insert whenever another
\* cached key is older.
C21_EvictionIsLRU ==
    /\ [](LET lru == ctx.transition_pipelines
          IN  /\ lru.pipelines = hist.map
              /\ \A i, j \in 1..Len(lru.access_order) :
                     i < j => hist.used[lru.access_order[i]]
                                  < hist.used[lru.access_order[j]])
    /\ [][last'.op = "get" => last'.exit = hist.map[last'.arg]]_vars
    /\ [][(last'.op = "insert" /\ last'.exit = "evicted") =>
            CachedKeys(ctx.transition_pipelines)
                \ CachedKeys(ctx'.transition_pipelines) = {RefOldest(hist)}]_vars
    /\ [][(/\ last.op = "get" /\ last.exit # NoPipeline
           /\ last'.op = "insert"
           /\ PipelineLRU_len(ctx.transition_pipelines) > 1) =>
            PipelineLRU_contains_key(ctx'.transition_pipelines, last.arg)]_vars

\* an insert of a third key into a full cache of two has just evicted a key
\* (e) although the key that stays (k) entered the reference's clock no later
\* than it: k was used again just before the insert
C21_Witness ==
    /\ last.op = "insert"
    /\ last.exit = "evicted"
    /\ ctx.transition_pipelines.max_size = 2
    /\ \E k \in CachedKeys(ctx.transition_pipelines) \ {last.arg} :
           /\ hist.used[k] = hist.clock - 1
           /\ \E e \in Transitions \ CachedKeys(ctx.transition_pipelines) :
                  /\ hist.used[e] > 0
                  /\ hist.used[e] < hist.used[k]
                  /\ hist.clock >= 4
(***************************************************************************)
(* SpecPool: the texture pool of the shared WgpuContext used by several    *)
(* threads.  Each pool function takes the mutex on entry and holds it to   *)
(* its end, so a call is one step.  A caller owns the textures it was      *)
(* given (hist.held) and gives a texture up when it releases it: the       *)
(* wgpu::Texture is moved into return_texture_to_pool.  The clock moves in *)
(* steps of PoolTickMs, far enough to pass both expiry ages.  For a pool   *)
(* step last.arg is the id of the texture and last.exit the outcome.       *)
(***************************************************************************)
PoolTickMs == 2500
MaxPoolTicks == 4
\* the sizes asked of the pool
PoolSizes == {<<1, 1>>}

InitPool ==
    /\ r = RendererNew
    /\ pool = <<>>
    /\ now = StartTime
    /\ last = [op |-> "new", arg |-> 0, exit |-> ""]
    /\ loop = LoopNew
    /\ ctx = CtxNew(MaxPipelines)
    /\ hist = HistNew

HeldIds == UNION {{t.id : t \in hist.held[c]} : c \in Callers}

PoolTick ==
    /\ now < StartTime + MaxPoolTicks * PoolTickMs
    /\ now' = now + PoolTickMs
    /\ Did("tick", "")
    /\ UNCHANGED <<r, pool, loop, ctx, hist>>

PoolGet ==
    \E c \in Callers, size \in PoolSizes :
        LET res == get_texture_from_pool(pool, size, now, HeldIds \cup PoolTexIds(pool))
        IN  /\ res.texture.id # 0
            /\ pool' = res.pool
            /\ hist' = [hist EXCEPT
                           !.held[c] = @ \cup {res.texture},
                           !.pool_op = PoolOp(hist, "get_texture_from_pool",
                                              res.texture.id, size, now,
                                              IF res.hit THEN "hit" ELSE "miss")]
            /\ DidWith("get_texture_from_pool", res.texture.id,
                       IF res.hit THEN "hit" ELSE "miss")
            /\ UNCHANGED <<r, now, loop, ctx>>

PoolReturn ==
    \E c \in Callers :
        \E texture \in hist.held[c] :
            LET full == /\ texture.size \in DOMAIN pool
                        /\ Len(pool[texture.size]) >= PoolBucketCap
            IN  /\ pool' = return_texture_to_pool(pool, texture, texture.size, now)
                /\ hist' = [hist EXCEPT
                               !.held[c] = @ \ {texture},
                               !.pool_op = PoolOp(hist, "return_texture_to_pool",
                                                  texture.id, texture.size, now,
                                                  IF full THEN "discarded"
                                                  ELSE "pushed")]
                /\ DidWith("return_texture_to_pool", texture.id,
                           IF full THEN "discarded" ELSE "pushed")
                /\ UNCHANGED <<r, now, loop, ctx>>

PoolCleanup ==
    /\ pool' = cleanup_texture_pool(pool, now)
    /\ hist' = [hist EXCEPT !.pool_op = PoolOp(hist, "cleanup_texture_pool",
                                                0, NoSize, now, "")]
    /\ Did("cleanup_texture_pool", "")
    /\ UNCHANGED <<r, now, loop, ctx>>

NextPool == PoolTick \/ PoolGet \/ PoolReturn \/ PoolCleanup

SpecPool == InitPool /\ [][NextPool]_vars
\* the number of free-list entries of the pool
PoolLen(p) == LET RECURSIVE sum(_)
                  sum(ks) == IF ks = {} THEN 0
                             ELSE LET k == CHOOSE x \in ks : TRUE
                                  IN  Len(p[k]) + sum(ks \ {k})
              IN  sum(DOMAIN p)

\* ---------------------------------------------------------------------------
\* C22: for any interleaving of get_texture_from_pool, return_texture_to_pool
\* and cleanup_texture_pool by several callers, the texture a caller is given
\* is no longer in any free list when the call returns; no texture is in a
\* free list while a caller holds it, none is in the free lists twice, and
\* none is held by two callers.
C22_PoolOwnership ==
    /\ [](/\ PoolTexIds(pool) \cap HeldIds = {}
          /\ PoolLen(pool) = Cardinality(PoolTexIds(pool))
          /\ \A c1, c2 \in Callers :
                 c1 # c2 => {t.id : t \in hist.held[c1]}
                                \cap {t.id : t \in hist.held[c2]} = {})
    /\ [][last'.op = "get_texture_from_pool" =>
            /\ last'.arg \notin PoolTexIds(pool')
            /\ last'.arg \in HeldIds'
            /\ last'.arg \notin HeldIds
            /\ last'.exit = "hit" => last'.arg \in PoolTexIds(pool)]_vars

\* a caller has just been given a pooled texture while the other caller holds
\* one and another texture is still free
C22_Witness ==
    /\ last.op = "get_texture_from_pool"
    /\ last.exit = "hit"
    /\ \A c \in Callers : hist.held[c] # {}
    /\ PoolTexIds(pool) # {}
\* the pool operation before this get_texture_from_pool step was a release
\* into the same bucket, less than the expiry age of get_texture_from_pool ago
GetFollowsReturn ==
    /\ last'.op = "get_texture_from_pool"
    /\ hist.pool_op.op = "return_texture_to_pool"
    /\ hist'.pool_op.key = hist.pool_op.key
    /\ (now - hist.pool_op.at) \div 1000 < PoolGetTtlSecs

\* ---------------------------------------------------------------------------
\* C23 (as stated): for every pool state, a texture released with
\* return_texture_to_pool(t, w, h) is the texture returned by
\* get_texture_from_pool(w, h) when that is the next pool operation and comes
\* before the expiry age, and the call counts as a hit.
C23_RoundTrip ==
    [][GetFollowsReturn =>
        /\ last'.arg = hist.pool_op.id
        /\ last'.exit = "hit"]_vars

\* C23 (amended): the same, for a release into a bucket that held fewer than
\* PoolBucketCap textures; a release into a full bucket discards the texture,
\* and the get that follows is a hit only on a texture the bucket already held.
C23_RoundTripWhenPushed ==
    [][GetFollowsReturn =>
        IF hist.pool_op.exit = "pushed"
        THEN /\ last'.arg = hist.pool_op.id
             /\ last'.exit = "hit"
        ELSE last'.exit = "hit" => last'.arg \in PoolTexIds(pool)]_vars

\* a texture released some time ago, into a bucket that already held one,
\* has just been handed out again by the next pool operation
C23_Witness ==
    /\ last.op = "get_texture_from_pool"
    /\ last.exit = "hit"
    /\ hist.pool_op.prev_op = "return_texture_to_pool"
    /\ hist.pool_op.prev_id = last.arg
    /\ hist.pool_op.at > hist.pool_op.prev_at
    /\ PoolTexIds(pool) # {}
\* ---------------------------------------------------------------------------
\* C24: after any sequence of pool operations every (width, height) bucket
\* holds at most PoolBucketCap (3) free textures; return_texture_to_pool
\* appends the texture, stamped with the time of the call, when the bucket
\* holds fewer than that, and otherwise discards it and leaves the bucket
\* unchanged.
C24_BucketCapacity ==
    /\ [](\A k \in DOMAIN pool : Len(pool[k]) <= PoolBucketCap)
    /\ [][last'.op = "return_texture_to_pool" =>
            LET k == hist'.pool_op.key
                before == IF k \in DOMAIN pool THEN pool[k] ELSE <<>>
            IN  /\ k \in DOMAIN pool'
                /\ IF Len(before) < PoolBucketCap
                   THEN /\ last'.exit = "pushed"
                        /\ Len(pool'[k]) = Len(before) + 1
                        /\ SubSeq(pool'[k], 1, Len(before)) = before
                        /\ pool'[k][Len(before) + 1].texture.id = last'.arg
                        /\ pool'[k][Len(before) + 1].last_used = now
                   ELSE /\ last'.exit = "discarded"
                        /\ pool'[k] = before
                        /\ last'.arg \notin PoolTexIds(pool')]_vars

\* a release into a full bucket has just discarded the texture
C24_Witness ==
    /\ last.op = "return_texture_to_pool"
    /\ last.exit = "discarded"
    /\ \E k \in DOMAIN pool : Len(pool[k]) = PoolBucketCap
    /\ last.arg \notin PoolTexIds(pool)
\* the entries of bucket k that are younger than ttl seconds at time t
Unexpired(p, k, t, ttl) ==
    IF k \in DOMAIN p THEN SelectSeq(p[k], LAMBDA e : age_secs(t, e) < ttl) ELSE <<>>

\* expiry by the one age ttl: get_texture_from_pool is a hit exactly when the
\* bucket holds an entry younger than ttl, it then returns such an entry, and
\* it always returns a texture; after cleanup_texture_pool no entry of age
\* ttl or more and no empty bucket remains, and no younger entry was removed
ExpiryBy(ttl) ==
    /\ last'.op = "get_texture_from_pool" =>
          LET young == Unexpired(pool, hist'.pool_op.key, now, ttl)
          IN  /\ last'.arg # 0
              /\ (last'.exit = "hit") = (young # <<>>)
              /\ last'.exit = "hit" =>
                    \E i \in 1..Len(young) : young[i].texture.id = last'.arg
    /\ last'.op = "cleanup_texture_pool" =>
          /\ \A k \in DOMAIN pool' :
                 /\ pool'[k] # <<>>
                 /\ pool'[k] = Unexpired(pool, k, now, ttl)
          /\ \A k \in DOMAIN pool \ DOMAIN pool' : Unexpired(pool, k, now, ttl) = <<>>

\* ---------------------------------------------------------------------------
\* C25: expiry by one fixed TTL, taken as the age used by
\* get_texture_from_pool: a hit only on an entry younger than the TTL, a
\* fresh texture otherwise, and a sweep after which no entry that has reached
\* the TTL remains.
C25_ExpiryByOneTtl == [][ExpiryBy(PoolGetTtlSecs)]_vars

\* C25 with the TTL taken as the age used by cleanup_texture_pool
C25_ExpiryBySweepTtl == [][ExpiryBy(PoolCleanupTtlSecs)]_vars
(***************************************************************************)
(* SpecChannel: the frame channel between the decoder threads and the      *)
(* event loop.  The appsink callback of a player sends each decoded frame  *)
(* with try_send; the bus watcher of a player sends an error event with    *)
(* blocking_send; the loop drains the channel with try_recv once per       *)
(* iteration and uploads the latest frame.  Frames are numbered in the     *)
(* order they are produced (loop.produced).                                *)
(***************************************************************************)
\* capacity given to the frame channel (60 in the engine)
FrameChannelCap == 2
\* the decoders produce at most MaxFrames frames and events
MaxFrames == 4

\* variant: a full channel makes room by dropping its oldest message
try_send_dropping_oldest(channel, msg, capacity) ==
    IF Len(channel) < capacity THEN Append(channel, msg)
    ELSE Append(Tail(channel), msg)

\* tokio mpsc Sender::try_send on a bounded channel: Err(Full(msg)) leaves the
\* channel as it is
try_send(channel, msg, capacity) ==
    IF Len(channel) < capacity THEN Append(channel, msg) ELSE channel

\* the appsink new_sample callback: one decoded frame of a player's session
ProduceFrame ==
    \E session_id \in 1..MaxSession :
        LET msg == [event |-> "Frame", session_id |-> session_id,
                    seq |-> loop.produced + 1]
        IN  /\ loop.produced < MaxFrames
            /\ loop' = [loop EXCEPT
                           !.frame_rx = try_send(@, msg, FrameChannelCap),
                           !.produced = @ + 1]
            /\ DidWith("produce_frame", session_id,
                       IF Len(loop.frame_rx) < FrameChannelCap THEN "sent" ELSE "full")
            /\ UNCHANGED <<r, pool, now, ctx, hist>>

\* the bus watcher thread on MessageView::Error: blocking_send waits for room
ProduceError ==
    LET msg == [event |-> "Error", session_id |-> 0, seq |-> loop.produced + 1]
    IN  /\ loop.produced < MaxFrames
        /\ Len(loop.frame_rx) < FrameChannelCap
        /\ loop' = [loop EXCEPT !.frame_rx = Append(@, msg), !.produced = @ + 1]
        /\ Did("produce_error", "sent")
        /\ UNCHANGED <<r, pool, now, ctx, hist>>

\* the frames of a channel, in order
FramesOf(channel) == SelectSeq(channel, LAMBDA m : m.event = "Frame")

\* "Handle Frames": try_recv until the channel is empty, keeping the last
\* frame received; then upload it and, for video content, render it
HandleFrames ==
    LET frames == FramesOf(loop.frame_rx)
    IN  /\ loop' = [loop EXCEPT !.frame_rx = <<>>]
        /\ UNCHANGED <<now, ctx, hist>>
        /\ IF frames = <<>>
           THEN /\ DidWith("handle_frames", 0, "empty")
                /\ UNCHANGED <<r, pool>>
           ELSE LET latest == frames[Len(frames)]
                    frame  == [session_id |-> latest.session_id,
                               size |-> <<1, 1>>, data |-> "F"]
                    res    == upload_frame(r, pool, frame, now)
                    s1     == res.self
                IN  /\ CanAllocate
                    /\ r' = IF s1.valid_content_type = "Video"
                               /\ (~s1.frame_callback_pending
                                   \/ s1.transition_progress = 0)
                            THEN request_frame_callback(loop_render(s1, now), now)
                            ELSE s1
                    /\ pool' = res.pool
                    /\ DidWith("handle_frames", latest.seq,
                               IF res.dropped THEN "dropped" ELSE "applied")

NextChannel ==
    \/ Tick
    \/ BeginVideo
    \/ ProduceFrame
    \/ ProduceError
    \/ HandleFrames

SpecChannel == Init /\ [][NextChannel]_vars

\* ---------------------------------------------------------------------------
\* C26: the frame channel never holds more than its capacity; a frame
\* produced while the channel is full is discarded and the queued messages
\* are unchanged, in their order; a frame produced while there is room is
\* appended behind them; the producer's step is possible whatever the channel
\* holds; the consumer's step is possible on an empty channel, takes
\* everything queued and leaves the channel empty.
C26_DropNewestOnFull ==
    /\ [](/\ Len(loop.frame_rx) <= FrameChannelCap
          /\ \A i, j \in 1..Len(loop.frame_rx) :
                 i < j => loop.frame_rx[i].seq < loop.frame_rx[j].seq
          /\ loop.produced < MaxFrames => ENABLED ProduceFrame
          /\ loop.frame_rx = <<>> => ENABLED HandleFrames)
    /\ [][last'.op = "produce_frame" =>
            IF Len(loop.frame_rx) >= FrameChannelCap
            THEN /\ last'.exit = "full"
                 /\ loop'.frame_rx = loop.frame_rx
            ELSE /\ last'.exit = "sent"
                 /\ Len(loop'.frame_rx) = Len(loop.frame_rx) + 1
                 /\ SubSeq(loop'.frame_rx, 1, Len(loop.frame_rx)) = loop.frame_rx
                 /\ loop'.frame_rx[Len(loop'.frame_rx)].seq = loop.produced + 1]_vars
    /\ [][last'.op = "handle_frames" =>
            /\ loop'.frame_rx = <<>>
            /\ last'.exit = "empty" => r' = r /\ pool' = pool]_vars

\* a frame has just been discarded at a full channel whose queued frames are
\* all older than it
C26_Witness ==
    /\ last.op = "produce_frame"
    /\ last.exit = "full"
    /\ Len(loop.frame_rx) = FrameChannelCap
    /\ \A i \in 1..Len(loop.frame_rx) : loop.frame_rx[i].seq < loop.produced

(***************************************************************************)
(* SpecPlayers: the life of the video players of one output (main.rs).     *)
(* A content switch takes the playing player out of video_players and      *)
(* spawns a task that stops it, and for a video spawns the blocking task    *)
(* that creates and starts the next player; that task sends its result on  *)
(* player_rx.  The loop's "Async Video Players" section handles one result *)
(* per step.  loop.stops records, for every VideoPlayer::stop() that ran,  *)
(* the player's session and the thread that ran it.                        *)
(***************************************************************************)
\* a content switch while the output exists
SwitchPlayers ==
    /\ ~loop.removed
    /\ SwitchWallpaper

\* the spawn_blocking task of create_and_start_video_player: VideoPlayer::new
\* and start() succeed or fail, and the result is sent on player_tx
PlayerCreated ==
    \E session_id \in loop.creating, started \in BOOLEAN :
        /\ loop' = [loop EXCEPT !.creating = @ \ {session_id},
                                !.player_rx = @ \cup {[session_id |-> session_id,
                                                       success |-> started]}]
        /\ DidWith("create_and_start_video_player", session_id,
                   IF started THEN "Success" ELSE "Failure")
        /\ UNCHANGED <<r, pool, now, ctx, hist>>

\* renderers.get(&name).map(|r| r.active_video_session_id) == Some(session_id)
is_active_session(self, lp, session_id) ==
    ~lp.removed /\ self.active_video_session_id = session_id

\* "Async Video Players": one result of player_rx.  A player of the active
\* session is inserted (a player it replaces is dropped, and Drop calls
\* stop()); a player of any other session is stopped by the loop itself
HandlePlayerResult ==
    \E res \in loop.player_rx :
        LET active == is_active_session(r, loop, res.session_id)
            lp1 == [loop EXCEPT !.player_rx = @ \ {res}]
        IN  /\ loop' = IF res.success /\ active
                       THEN [lp1 EXCEPT !.video_players = {res.session_id},
                                        !.stops = @ \cup
                                            {[session_id |-> p, thread |-> "loop"] :
                                                p \in loop.video_players}]
                       ELSE IF res.success
                       THEN [lp1 EXCEPT !.stops = @ \cup
                                {[session_id |-> res.session_id, thread |-> "loop"]}]
                       ELSE lp1
            /\ r' = IF ~res.success /\ active THEN abort_transition(r) ELSE r
            /\ DidWith("player_result", res.session_id,
                       IF res.success /\ active THEN "inserted"
                       ELSE IF res.success THEN "stale"
                       ELSE IF active THEN "aborted" ELSE "ignored")
            /\ UNCHANGED <<pool, now, ctx, hist>>

\* tokio::spawn(async move { let _ = vp.stop(); }): a runtime worker runs
\* the stop of a player that was taken out of video_players
StopTask ==
    \E session_id \in loop.stop_tasks :
        /\ loop' = [loop EXCEPT !.stop_tasks = @ \ {session_id},
                                !.stops = @ \cup
                                    {[session_id |-> session_id, thread |-> "task"]}]
        /\ DidWith("VideoPlayer::stop", session_id, "task")
        /\ UNCHANGED <<r, pool, now, ctx, hist>>

\* "Remove orphaned renderers": the output is gone; its renderer is dropped
\* and its player, if any, is handed to a spawned stop
RemoveOutput ==
    /\ ~loop.removed
    /\ loop' = [loop EXCEPT !.removed = TRUE,
                            !.video_players = {},
                            !.stop_tasks = @ \cup loop.video_players]
    /\ DidWith("remove_output", 0, IF loop.video_players = {} THEN "idle" ELSE "playing")
    /\ UNCHANGED <<r, pool, now, ctx, hist>>

NextPlayers ==
    \/ SwitchPlayers
    \/ PlayerCreated
    \/ HandlePlayerResult
    \/ StopTask
    \/ RemoveOutput

SpecPlayers == Init /\ [][NextPlayers]_vars

\* C27: every stop of a video player that the running loop initiates (content
\* switch, output removal, result of a superseded session) runs in a
\* background task; the loop thread never runs VideoPlayer::stop()
C27_LoopNeverStopsPlayer ==
    \A s \in loop.stops : s.thread = "task"

\* the stops the loop hands over on a content switch and on the removal of
\* an output do run in a task
C27_SwitchAndRemovalOffloaded ==
    [][(last'.op \in {"switch_wallpaper_content", "remove_output"})
           => loop'.stops = loop.stops]_vars

(***************************************************************************)
(* SpecLocks: the critical sections of WgpuContext's four mutexes          *)
(* (renderer.rs:102-109).  Two threads call the functions that lock them;  *)
(* each function is followed statement by statement: hist.pc is a thread's *)
(* position, hist.locks the mutexes it holds, and hist.under_lock collects *)
(* every operation that ran while its thread held a mutex.  Each map holds *)
(* at most one key (hist.cached) and the pool one bucket of hist.pooled    *)
(* textures.                                                                *)
(***************************************************************************)
PipelineMaps == {"transition_pipelines", "blit_pipelines", "mipmap_pipelines"}
Mutexes == PipelineMaps \cup {"texture_pool"}

PoolFunctions == {"get_transition_pipeline", "get_blit_pipeline", "get_mipmap_pipeline",
                  "get_texture_from_pool", "return_texture_to_pool",
                  "cleanup_texture_pool", "queue_submit"}

\* the mutex a function locks
mutex_of(fn) ==
    CASE fn = "get_transition_pipeline" -> "transition_pipelines"
      [] fn = "get_blit_pipeline"       -> "blit_pipelines"
      [] fn = "get_mipmap_pipeline"     -> "mipmap_pipelines"
      [] OTHER                          -> "texture_pool"

\* what a statement is: a map operation, or a call into the GPU device/queue
kind_of(at) ==
    CASE at \in {"get", "get_mut", "entry"}   -> "lookup"
      [] at \in {"insert", "push"}            -> "insert"
      [] at \in {"retain", "pop"}             -> "remove"
      [] OTHER                                -> at

\* the statement after `at` in fn, given the maps' contents
next_at(h, fn, at) ==
    IF fn \in {"get_transition_pipeline", "get_blit_pipeline", "get_mipmap_pipeline"}
    THEN CASE at = "lock"        -> "get"
           [] at = "get"         -> IF mutex_of(fn) \in h.cached
                                    THEN "unlock" ELSE "unlock_miss"
           [] at = "unlock_miss" -> "compile"
           [] at = "compile"     -> "lock_insert"
           [] at = "lock_insert" -> "insert"
           [] at = "insert"      -> "unlock"
           [] OTHER              -> "idle"
    ELSE IF fn = "get_texture_from_pool"
    THEN CASE at = "lock"           -> "get_mut"
           [] at = "get_mut"        -> IF h.pooled > 0 THEN "retain" ELSE "create_texture"
           [] at = "retain"         -> IF h.pooled > 0 THEN "pop" ELSE "create_texture"
           [] at = "pop"            -> "unlock"
           [] at = "create_texture" -> "unlock"
           [] OTHER                 -> "idle"
    ELSE IF fn = "return_texture_to_pool"
    THEN CASE at = "lock"         -> "entry"
           [] at = "entry"        -> IF h.pooled < PoolBucketCap THEN "push" ELSE "unlock_full"
           [] at = "push"         -> "unlock"
           [] at = "unlock_full"  -> "drop_texture"
           [] OTHER               -> "idle"
    ELSE IF fn = "cleanup_texture_pool"
    THEN CASE at = "lock"   -> "retain"
           [] at = "retain" -> "unlock"
           [] OTHER         -> "idle"
    ELSE "idle"

\* thread c moves to the statement after the one it ran
advance(h, c) ==
    LET pc == h.pc[c]
        to == next_at(h, pc.fn, pc.at)
    IN  [h EXCEPT !.pc[c] = IF to = "idle" THEN Idle ELSE [fn |-> pc.fn, at |-> to]]

\* the statement at pc ran: it is recorded with every mutex its thread holds
ran(h, c) ==
    [h EXCEPT !.under_lock = @ \cup {[mutex |-> m, kind |-> kind_of(h.pc[c].at)] :
                                        m \in h.locks[c]}]

\* a thread enters one of the functions
CallPoolFunction ==
    \E c \in Callers, fn \in PoolFunctions :
        /\ hist.pc[c] = Idle
        /\ hist' = [hist EXCEPT !.pc[c] =
                        [fn |-> fn, at |-> IF fn = "queue_submit" THEN "submit" ELSE "lock"]]
        /\ DidWith("call", c, fn)
        /\ UNCHANGED <<r, pool, now, loop, ctx>>

\* mutex.lock(): waits until no thread holds the mutex
LockMutex ==
    \E c \in Callers :
        LET m == mutex_of(hist.pc[c].fn)
        IN  /\ hist.pc[c].at \in {"lock", "lock_insert"}
            /\ \A d \in Callers : m \notin hist.locks[d]
            /\ hist' = advance([ran(hist, c) EXCEPT !.locks[c] = @ \cup {m}], c)
            /\ DidWith("lock", c, m)
            /\ UNCHANGED <<r, pool, now, loop, ctx>>

\* the guard goes out of scope
UnlockMutex ==
    \E c \in Callers :
        LET m == mutex_of(hist.pc[c].fn)
        IN  /\ hist.pc[c].at \in {"unlock", "unlock_miss", "unlock_full"}
            /\ hist' = advance([hist EXCEPT !.locks[c] = @ \ {m}], c)
            /\ DidWith("unlock", c, m)
            /\ UNCHANGED <<r, pool, now, loop, ctx>>

\* a lookup, insertion or removal on the map or on the bucket
MapOperation ==
    \E c \in Callers, expired \in BOOLEAN :
        LET at == hist.pc[c].at
            h1 == ran(hist, c)
            h2 == CASE at = "insert" -> [h1 EXCEPT !.cached = @ \cup {mutex_of(hist.pc[c].fn)}]
                    [] at = "push"   -> [h1 EXCEPT !.pooled = @ + 1]
                    [] at = "pop"    -> [h1 EXCEPT !.pooled = @ - 1]
                    [] at = "retain" -> [h1 EXCEPT !.pooled = IF expired THEN 0 ELSE @]
                    [] OTHER         -> h1
        IN  /\ kind_of(at) \in {"lookup", "insert", "remove"}
            /\ expired => at = "retain"
            /\ hist' = advance(h2, c)
            /\ DidWith(at, c, hist.pc[c].fn)
            /\ UNCHANGED <<r, pool, now, loop, ctx>>

\* a call into the device or the queue: create_shader_module and
\* create_render_pipeline, device.create_texture, the drop of a texture,
\* queue.submit
GpuOperation ==
    \E c \in Callers :
        LET at == hist.pc[c].at
        IN  /\ at \in {"compile", "create_texture", "drop_texture", "submit"}
            /\ hist' = advance(ran(hist, c), c)
            /\ DidWith(at, c, hist.pc[c].fn)
            /\ UNCHANGED <<r, pool, now, loop, ctx>>

NextLocks ==
    \/ CallPoolFunction
    \/ LockMutex
    \/ UnlockMutex
    \/ MapOperation
    \/ GpuOperation

SpecLocks == Init /\ [][NextLocks]_vars

\* C28: every critical section on the pool mutexes contains only map
\* lookups and insertions (the removals of retain and pop are counted as map
\* operations too), no mutex is held over a submission or a compilation, and
\* no thread holds two of the mutexes at once
C28_LockScope ==
    /\ \A e \in hist.under_lock : e.kind \in {"lookup", "insert", "remove"}
    /\ \A c \in Callers : Cardinality(hist.locks[c]) <= 1

\* the part of C28 about submissions, compilations and nested locking
C28_NoSubmitCompileOrNesting ==
    /\ \A e \in hist.under_lock : e.kind \notin {"submit", "compile", "lock"}
    /\ \A c \in Callers : Cardinality(hist.locks[c]) <= 1

\* both threads are inside critical sections, and a program was compiled
C28_Witness ==
    /\ \A c \in Callers : hist.locks[c] # {}
    /\ hist.cached # {}

(***************************************************************************)
(* Draw-source selection.  DrawSource is the selection table over the four *)
(* facts (transition active, previous present, current present,            *)
(* composition present); the renderer's selection is compared with it on   *)
(* every reachable renderer with the four facts set to every combination.  *)
(***************************************************************************)
DrawSource(active, prev, cur, comp) ==
    IF cur /\ (~active \/ ~prev) THEN "Current"
    ELSE IF cur /\ comp THEN "Composition"
    ELSE IF cur THEN "Prev"
    ELSE IF prev THEN "Prev"
    ELSE "None"

\* the renderer with the presence of its textures and its transition flag set
with_presence(self, active, prev, cur, comp_tex, comp_view) ==
    LET tex(id) == [id |-> id, size |-> <<1, 1>>, data |-> "F"]
    IN  [self EXCEPT !.transition_active = active,
                     !.prev_texture = IF prev THEN tex(1) ELSE NoTex,
                     !.current_texture = IF cur THEN tex(2) ELSE NoTex,
                     !.composition_texture =
                         IF comp_tex THEN tex(CompositionId) ELSE NoTex,
                     !.composition_texture_view =
                         IF comp_view THEN CompositionId ELSE 0]

\* the texture a source names
source_texture(self, source) ==
    CASE source = "Current"     -> self.current_texture
      [] source = "Prev"        -> self.prev_texture
      [] source = "Composition" -> self.composition_texture
      [] OTHER                  -> NoTex

\* C29: the draw source is a function of (transition active, previous
\* present, current present, composition present) only, as given by the
\* table; the selected source has a present texture, a source is selected
\* whenever current or previous exists, and render draws nothing for lack of
\* a source only when neither exists
C29_DrawSourceSelection ==
    /\ \A active, prev, cur, comp_tex, comp_view \in BOOLEAN :
           LET s == with_presence(r, active, prev, cur, comp_tex, comp_view)
               source == blit_source(s)
           IN  /\ source = DrawSource(active, prev, cur, comp_tex /\ comp_view)
               /\ source # "None" => is_some(source_texture(s, source))
    /\ (is_some(r.current_texture) \/ is_some(r.prev_texture))
           => is_some(source_texture(r, blit_source(r)))
    /\ (last.op = "render" /\ last.exit = "no_source")
           => ~is_some(r.current_texture) /\ ~is_some(r.prev_texture)

\* a render drew the composition buffer in the middle of a transition
C29_Witness ==
    /\ last.op = "render"
    /\ last.exit = "presented"
    /\ r.transition_active
    /\ is_some(r.prev_texture)
    /\ is_some(r.current_texture)
    /\ r.blit_source_is_composition
    /\ blit_source(r) = "Composition"

\* C30: a render tick on a configured surface with no active transition and
\* needs_redraw false returns before the presentation target is acquired
\* (whatever get_current_texture() would have returned), presents nothing,
\* requests no frame callback and leaves every field of the renderer as it was
C30_SteadyStateIsFree ==
    [][(last'.op = "render" /\ r.configured /\ ~r.transition_active /\ ~r.needs_redraw)
           => /\ last'.exit = "idle"
              /\ r' = r
              /\ \A context \in BackendContexts, acquire \in SurfaceResults,
                       formats_empty, pipeline \in BOOLEAN :
                     render(r, context, now, now, acquire, formats_empty, pipeline)
                         = [self |-> r, exit |-> "idle", source |-> "None"]]_vars

\* a render tick skipped on a configured surface that shows an image
C30_Witness ==
    /\ last.op = "render"
    /\ last.exit = "idle"
    /\ r.configured
    /\ ~r.transition_active
    /\ ~r.needs_redraw
    /\ ~r.frame_callback_pending
    /\ is_some(r.current_texture)

\* C31: at the end of every render tick that presented a frame, needs_redraw
\* is true if a transition is still active or the content is a video, and
\* false if no transition is active and the content is an image
C31_NeedsRedrawPolicy ==
    [][(last'.op = "render" /\ last'.exit = "presented")
           => (r'.needs_redraw
                  <=> (r'.transition_active \/ r'.valid_content_type = "Video"))]_vars

\* a static image was presented with no transition left and the flag cleared
C31_Witness ==
    /\ last.op = "render"
    /\ last.exit = "presented"
    /\ ~r.transition_active
    /\ r.valid_content_type = "Image"
    /\ is_some(r.current_texture)
    /\ ~r.needs_redraw

\* a video frame was presented with no transition active and the flag kept
C31_WitnessVideo ==
    /\ last.op = "render"
    /\ last.exit = "presented"
    /\ ~r.transition_active
    /\ r.valid_content_type = "Video"
    /\ r.needs_redraw

C33_ResizeChecked ==
    \A size \in ResizeInputs \cup {<<0, 0>>, <<0, 1>>, <<1, 0>>}, formats_empty \in BOOLEAN :
        LET s == resize_checked(r, size, formats_empty)
        IN  IF size[1] = 0 \/ size[2] = 0 THEN s = r
            ELSE IF formats_empty THEN s = [r EXCEPT !.configured = FALSE]
            ELSE /\ is_some(s.composition_texture)
                 /\ s.composition_texture.size = size
                 /\ s.composition_texture_view = s.composition_texture.id
                 /\ s.transition_bind_group = NoTransitionBindGroup
                 /\ s.blit_bind_group = NoBlitBindGroup
                 /\ s.configured
                 /\ s.needs_redraw
                 /\ s = [r EXCEPT !.config = size,
                                  !.composition_texture = s.composition_texture,
                                  !.composition_texture_view = s.composition_texture_view,
                                  !.transition_bind_group = NoTransitionBindGroup,
                                  !.blit_bind_group = NoBlitBindGroup,
                                  !.configured = TRUE,
                                  !.needs_redraw = TRUE]

\* a surface was resized in the middle of a transition whose bind groups had
\* been cached by an earlier render
C33_Witness ==
    /\ last.op = "resize_checked"
    /\ r.transition_active
    /\ r.transition_start_time # NoInstant
    /\ is_some(r.prev_texture) /\ is_some(r.current_texture)
    /\ r.configured /\ r.needs_redraw
    /\ r.composition_texture.size = r.config
    /\ r.blit_bind_group = NoBlitBindGroup

\* C34: in every reachable state an active transition has both a previous
\* and a current texture
C34_ActiveHasBothTextures ==
    r.transition_active => (is_some(r.prev_texture) /\ is_some(r.current_texture))

\* a transition armed by the first video frame after a switch away from an image
C34_Witness ==
    /\ r.transition_active
    /\ last.op = "upload_frame"
    /\ is_some(r.prev_texture) /\ is_some(r.current_texture)
    /\ r.prev_texture.id # r.current_texture.id

\* C35: a Success or Failure result for a session that is not the one of the
\* output's most recent content switch (a newer switch to an image or to
\* another video was issued) installs no player and aborts nothing
C35_StaleResultHasNoEffect ==
    [][(/\ last'.op = "player_result"
        /\ ~loop.removed
        /\ ~(loop.latest = "Video" /\ last'.arg = loop.next_session_id - 1))
           => (/\ last'.exit \in {"stale", "ignored"}
               /\ loop'.video_players = loop.video_players
               /\ r' = r)]_vars

\* the part of C35 about a newer switch to another video
C35_SupersededByVideo ==
    [][(/\ last'.op = "player_result"
        /\ ~loop.removed
        /\ last'.arg < loop.next_session_id - 1)
           => (/\ last'.exit \in {"stale", "ignored"}
               /\ loop'.video_players = loop.video_players
               /\ r' = r)]_vars

\* C36: if the frames drained from the channel in one iteration include a
\* frame of the output's active video session, a frame of the active session
\* is uploaded in that iteration, whatever frames of other sessions are
\* before or after it in the channel
C36_ActiveFrameSurvivesCoalescing ==
    [][(/\ last'.op = "handle_frames"
        /\ r.valid_content_type = "Video"
        /\ \E i \in 1..Len(loop.frame_rx) :
               /\ loop.frame_rx[i].event = "Frame"
               /\ loop.frame_rx[i].session_id = r.active_video_session_id)
           => last'.exit = "applied"]_vars

\* the same when the last frame in the channel is of the active session
C36_LastFrameOfActiveSession ==
    [][(/\ last'.op = "handle_frames"
        /\ r.valid_content_type = "Video"
        /\ FramesOf(loop.frame_rx) # <<>>
        /\ FramesOf(loop.frame_rx)[Len(FramesOf(loop.frame_rx))].session_id
               = r.active_video_session_id)
           => last'.exit = "applied"]_vars

(***************************************************************************)
(* SpecGate: the frame callbacks of one Wayland surface.  The sections of  *)
(* the loop that render (images, resizes, callback deliveries) run with a  *)
(* surface whose acquisition may fail.  loop.callbacks holds the instants  *)
(* of the wl_surface.frame() requests the compositor has not answered;    *)
(* after a Lost or Outdated surface the compositor may keep or discard     *)
(* them.                                                                   *)
(***************************************************************************)
\* whether the handler that took the renderer from before to after called
\* wl_surface.frame() at t
issued(before, after, t) ==
    /\ after.frame_callback_pending
    /\ after.last_frame_request = t
    /\ ~(before.frame_callback_pending /\ before.last_frame_request = t)

\* the compositor's outstanding requests after a handler
compositor(lp, before, after, t, kept) ==
    [lp EXCEPT !.callbacks = (IF kept THEN @ ELSE {})
                                 \cup (IF issued(before, after, t) THEN {t} ELSE {})]

\* r.render(BackendContext::Wayland{..}, loop_start) with the result of
\* get_current_texture()
gate_render(self, acquire, t) == render(self, "Wayland", t, t, acquire, FALSE, TRUE).self

\* the results of get_current_texture() that touch the callback fields
GateSurfaceResults == {"Ok", "Lost", "Outdated"}

\* "Handle Images" with a decoded image
GateImage ==
    \E acquire \in GateSurfaceResults, kept \in BOOLEAN :
        LET s1 == upload_image_data(r, pool, "I", <<1, 1>>)
            s2 == IF s1.configured THEN gate_render(s1, acquire, now) ELSE s1
        IN  /\ CanAllocate
            /\ ~kept => acquire \in {"Lost", "Outdated"}
            /\ r' = s2
            /\ loop' = compositor(loop, r, s2, now, kept)
            /\ DidWith("handle_image", 0, acquire)
            /\ UNCHANGED <<pool, now, ctx, hist>>

\* "Handle Resizes"
GateResize ==
    \E acquire \in GateSurfaceResults, kept \in BOOLEAN :
        LET s1 == resize_checked(r, <<1, 1>>, FALSE)
            s2 == IF s1.configured
                  THEN request_frame_callback(gate_render(s1, acquire, now), now)
                  ELSE s1
        IN  /\ ~kept => acquire \in {"Lost", "Outdated"}
            /\ r' = s2
            /\ loop' = compositor(loop, r, s2, now, kept)
            /\ DidWith("resize", 0, acquire)
            /\ UNCHANGED <<pool, now, ctx, hist>>

\* "Rendering": the compositor answers one outstanding request, or all of
\* them, and the loop renders the surface
GateCallback ==
    \E acquire \in GateSurfaceResults, kept \in BOOLEAN,
       done \in {loop.callbacks} \cup {{c} : c \in loop.callbacks} :
        LET s1 == [r EXCEPT !.frame_callback_pending = FALSE,
                            !.last_frame_request = NoInstant]
            s2 == gate_render(s1, acquire, now)
        IN  /\ done # {}
            /\ ~kept => acquire \in {"Lost", "Outdated"}
            /\ r' = s2
            /\ loop' = compositor([loop EXCEPT !.callbacks = @ \ done], s1, s2, now, kept)
            /\ DidWith("frame_callback", 0, acquire)
            /\ UNCHANGED <<pool, now, ctx, hist>>

\* "Request missing frames and check for transition completion"
GateRequestMissing ==
    LET s1 == IF (r.needs_redraw \/ r.transition_active \/ r.valid_content_type = "Video")
                 /\ ~r.frame_callback_pending
              THEN request_frame_callback(r, now)
              ELSE r
    IN  /\ r' = [s1 EXCEPT !.transition_just_completed = FALSE]
        /\ loop' = compositor(loop, r, s1, now, TRUE)
        /\ Did("request_missing", "")
        /\ UNCHANGED <<pool, now, ctx, hist>>

NextGate ==
    \/ Tick
    \/ LongWait
    \/ SwitchContent
    \/ GateImage
    \/ GateResize
    \/ GateCallback
    \/ GateRequestMissing

SpecGate == Init /\ [][NextGate]_vars

\* C37: at most one frame-callback request younger than 500 ms is
\* outstanding at the compositor (no request is issued while one younger
\* than 500 ms is unanswered), and frame_callback_pending implies that
\* last_frame_request is set
C37_PresentationGating ==
    [][/\ issued(r, r', now) =>
              \A c \in loop.callbacks \ (loop.callbacks \ loop'.callbacks) :
                  now - c >= CallbackFailsafeMs
       /\ r'.frame_callback_pending => r'.last_frame_request # NoInstant]_vars

\* the part of C37 on the two fields of the renderer
C37_PendingHasRequestTime ==
    r.frame_callback_pending => r.last_frame_request # NoInstant

\* C38: cached bind groups never go stale: whenever render has drawn, the
\* blit bind group is bound to the texture held by the source that the
\* selection chose on that tick, and a cached transition bind group is always
\* bound to the textures held as previous and current
C38_BindGroupsFresh ==
    /\ r.transition_bind_group # NoTransitionBindGroup
           => /\ is_some(r.prev_texture) /\ is_some(r.current_texture)
              /\ r.transition_bind_group.prev = r.prev_texture.id
              /\ r.transition_bind_group.cur = r.current_texture.id
    /\ (last.op = "render" /\ last.exit = "presented")
           => /\ r.blit_bind_group # NoBlitBindGroup
              /\ r.blit_bind_group.tex = source_texture(r, blit_source(r)).id

\* a frame was drawn from the current texture on the tick on which a
\* transition between two textures ended
C38_Witness ==
    /\ last.op = "render" /\ last.exit = "presented"
    /\ blit_source(r) = "Current"
    /\ r.transition_just_completed
    /\ is_some(r.prev_texture)
    /\ is_some(r.composition_texture)
    /\ r.blit_bind_group # NoBlitBindGroup
    /\ r.blit_bind_group.tex = r.current_texture.id
(***************************************************************************)
(* C39: video frames do not restart a running transition.                  *)
(***************************************************************************)
\* frames of the size of the current texture and of another size
FrameSizes == {<<1, 1>>, <<2, 1>>}
FramesOfAnySize == [session_id : 0..MaxSession, size : FrameSizes, data : Data]

\* C39: an accepted frame of the active video session that arrives while
\* current is present replaces the pixels of current and leaves
\* transition_active, transition_progress, the start anchor and previous
\* unchanged; when its size equals the current size it reuses the same
\* texture and touches neither the texture pool nor the cached bind groups
C39_FrameKeepsTransition ==
    \A frame \in FramesOfAnySize :
        (~frame_is_stale(r, frame) /\ is_some(r.current_texture)) =>
            LET res == upload_frame(r, pool, frame, now)
                s   == res.self
            IN  /\ ~res.dropped
                /\ is_some(s.current_texture)
                /\ s.current_texture.data = frame.data
                /\ s.current_texture.size = frame.size
                /\ s.transition_active = r.transition_active
                /\ s.transition_progress = r.transition_progress
                /\ s.transition_start_time = r.transition_start_time
                /\ s.prev_texture = r.prev_texture
                /\ (frame.size = r.current_texture_size =>
                        /\ s.current_texture.id = r.current_texture.id
                        /\ res.pool = pool
                        /\ s.transition_bind_group = r.transition_bind_group
                        /\ s.blit_bind_group = r.blit_bind_group
                        /\ s.current_texture_view = r.current_texture_view)

\* a later frame of the active session was uploaded into the texture of a
\* transition that is under way, anchored and with cached bind groups
C39_Witness ==
    /\ last.op = "upload_frame"
    /\ last.exit = "next"
    /\ r.transition_active
    /\ r.transition_start_time # NoInstant
    /\ r.transition_progress > 0
    /\ r.transition_bind_group # NoTransitionBindGroup
    /\ is_some(r.prev_texture)
    /\ r.current_texture.data = "F"
(***************************************************************************)
(* VideoPlayer::start and VideoPlayer::stop: the bus watcher thread, the   *)
(* appsink callbacks, the bounded frame channel and the loop that drains   *)
(* it.  The thread of the watcher is at "acquire" (waiting for its permit),*)
(* "check" (the while condition), "timed_pop", "blocking_send" or          *)
(* "exited"; a call of stop is at "signalled" (is_running stored false),   *)
(* "join" or "returned".  stop is called by the loop itself ("loop": a     *)
(* stale player result), by a spawned task ("task": a content switch or a  *)
(* removed output) or by the loop on its way out ("shutdown").             *)
(***************************************************************************)
StopCallers == {"loop", "task", "shutdown"}

\* the loop reaches "Handle Frames" unless it is inside a call of stop or has
\* left the loop
loop_drains(lp) ==
    \/ lp.player.by \in {"none", "task"}
    \/ lp.player.by = "loop" /\ lp.player.stop = "returned"

\* VideoPlayer::start: the pipeline is set to Playing, is_running is stored
\* true and the bus watcher thread is spawned
StartPlayer ==
    /\ loop.player.thread_handle = "None"
    /\ loop.player.stop = "idle"
    /\ loop' = [loop EXCEPT !.player.pipeline = "Playing",
                            !.player.is_running = TRUE,
                            !.player.thread_handle = "acquire"]
    /\ Did("start", "spawned")
    /\ UNCHANGED <<r, pool, now, ctx, hist>>

\* bus watcher: rt.block_on(semaphore.acquire_owned()) with a permit free
BusWatcherAcquire ==
    /\ loop.player.thread_handle = "acquire"
    /\ loop' = [loop EXCEPT !.player.thread_handle = "check"]
    /\ Did("bus_watcher", "permit")
    /\ UNCHANGED <<r, pool, now, ctx, hist>>

\* bus watcher: while is_running.load(SeqCst)
BusWatcherCheck ==
    /\ loop.player.thread_handle = "check"
    /\ loop' = [loop EXCEPT !.player.thread_handle =
                                IF loop.player.is_running THEN "timed_pop" ELSE "exited"]
    /\ Did("bus_watcher", IF loop.player.is_running THEN "running" ELSE "exiting")
    /\ UNCHANGED <<r, pool, now, ctx, hist>>

\* bus watcher: bus.timed_pop(100 ms) returns None, a message that is
\* handled in place, or an Error message; a pipeline in the Null state posts
\* no message
BusWatcherTimedPop ==
    \E msg \in {"None", "Eos", "Error"} :
        /\ loop.player.thread_handle = "timed_pop"
        /\ msg # "None" => loop.player.pipeline # "Null"
        /\ loop' = [loop EXCEPT !.player.thread_handle =
                                    IF msg = "Error" THEN "blocking_send" ELSE "check"]
        /\ Did("bus_watcher", msg)
        /\ UNCHANGED <<r, pool, now, ctx, hist>>

\* bus watcher: frame_tx.blocking_send(Error) returns once the channel has
\* room, then break
BusWatcherBlockingSend ==
    LET msg == [event |-> "Error", session_id |-> 0, seq |-> loop.produced + 1]
    IN  /\ loop.player.thread_handle = "blocking_send"
        /\ Len(loop.frame_rx) < FrameChannelCap
        /\ loop' = [loop EXCEPT !.frame_rx = Append(@, msg),
                                !.produced = @ + 1,
                                !.player.thread_handle = "exited"]
        /\ Did("bus_watcher", "sent")
        /\ UNCHANGED <<r, pool, now, ctx, hist>>

\* stop(), first part: return at once when is_running is false, else store
\* false
StopCall ==
    \E by \in StopCallers :
        /\ loop.player.thread_handle # "None"
        /\ loop.player.stop = "idle"
        /\ loop' = [loop EXCEPT !.player.by = by,
                                !.player.is_running = FALSE,
                                !.player.stop = IF loop.player.is_running
                                                THEN "signalled" ELSE "returned"]
        /\ Did("stop", by)
        /\ UNCHANGED <<r, pool, now, ctx, hist>>

\* stop(), second part: set_state(Paused), then set_state(Null)?, which
\* returns the error without joining when the state change fails
StopSetState ==
    \E ok \in BOOLEAN :
        /\ loop.player.stop = "signalled"
        /\ loop' = [loop EXCEPT !.player.pipeline = IF ok THEN "Null" ELSE "Paused",
                                !.player.stop = IF ok THEN "join" ELSE "returned"]
        /\ Did("stop", IF ok THEN "null" ELSE "error")
        /\ UNCHANGED <<r, pool, now, ctx, hist>>

\* stop(), third part: handle.join() returns when the thread has exited
StopJoin ==
    /\ loop.player.stop = "join"
    /\ loop.player.thread_handle = "exited"
    /\ loop' = [loop EXCEPT !.player.stop = "returned"]
    /\ Did("stop", "joined")
    /\ UNCHANGED <<r, pool, now, ctx, hist>>

\* the appsink callbacks of the players that are still playing
DecoderCallback ==
    /\ ProduceFrame

\* "Handle Frames", reached by a loop that is running
LoopHandleFrames ==
    /\ loop_drains(loop)
    /\ HandleFrames

\* a content switch to a video, made by a loop that is running
LoopBeginVideo ==
    /\ loop_drains(loop)
    /\ BeginVideo

BusWatcher ==
    \/ BusWatcherAcquire
    \/ BusWatcherCheck
    \/ BusWatcherTimedPop
    \/ BusWatcherBlockingSend

Stop ==
    \/ StopSetState
    \/ StopJoin

NextStop ==
    \/ LoopBeginVideo
    \/ StartPlayer
    \/ BusWatcher
    \/ StopCall
    \/ Stop
    \/ DecoderCallback
    \/ LoopHandleFrames

SpecStop == Init /\ [][NextStop]_vars

\* a running loop has emptied the channel
Drained == loop_drains(loop) => loop.frame_rx = <<>>

\* every thread that can take a step takes one, and a running loop empties
\* the channel again and again
SpecStopLive ==
    /\ SpecStop
    /\ WF_vars(BusWatcher)
    /\ WF_vars(Stop)
    /\ []<>Drained

\* C40: VideoPlayer::stop() always terminates: whatever the decoder
\* callbacks, the bus watcher thread and the loop that drains the frame
\* channel do, a call of stop returns
C40_StopTerminates ==
    (loop.player.stop # "idle") ~> (loop.player.stop = "returned")

\* a call of stop made by a spawned task while the loop keeps draining the
\* channel returns
C40_OffloadedStopTerminates ==
    (loop.player.stop # "idle" /\ loop.player.by = "task")
        ~> (loop.player.stop = "returned")

\* the join of a stop made by the loop itself waits for a watcher that waits
\* for room in the full channel
C40_StuckJoin ==
    /\ loop.player.stop = "join"
    /\ loop.player.by = "loop"
    /\ loop.player.thread_handle = "blocking_send"
    /\ Len(loop.frame_rx) = FrameChannelCap

=============================================================================
